---- MODULE Spec2Model ----
(***************************************************************************)
(* A model of js/breakout.js: the Title / Play / GameOver / Win game       *)
(* states, the Play session (score, lives, level, balls, bricks, walls,    *)
(* paddle) and the timers that drive it.                                   *)
(*                                                                         *)
(* The gizmo library (StateMgr, Timer, EvtSystem, Hierarchy, Mathf) is     *)
(* imported by URL and its code is not part of js/breakout.js; the model   *)
(* follows the contracts the specification gives for it (sections 4.2 and  *)
(* 4.6): timers fire at ticks, in creation order, callbacks run to         *)
(* completion; a state transition stops the active state and then          *)
(* prepares the requested one.                                             *)
(*                                                                         *)
(* Time is in milliseconds.  Paddle.value is held in thousandths (0..1000  *)
(* stands for 0..1).  Positions and angles of balls are not state of this  *)
(* model: what a ball's candidate bounds overlap in a tick is an input of  *)
(* the ball tick (a Geom record).                                          *)
(***************************************************************************)
EXTENDS Integers, Sequences, FiniteSets, TLC

VARIABLES
    current,       \* StateMgr: tag of the started state, "none" before the first
    listening,     \* the states whose event listeners are registered
    wanted,        \* StateMgr: requested transitions not yet performed
    payload,       \* the score the started state shows (0 when it shows none)
    score, lives, level, gameover,   \* PlayState fields
    balls, bricks, walls,            \* PlayState fields (arrays of objects)
    paddleTicker,  \* PlayState.paddleTicker is defined
    value,         \* Paddle.value, in thousandths
    paddleX,       \* paddle.xform.x, the paddle's centre, in 1/100 of a pixel
    pressed,       \* the arrow keys the key system holds as pressed
    timers,        \* the Timer objects that are scheduled, in creation order
    ballsSpawned,  \* number of Ball objects created in this session
    destroyed,     \* destroyed[id]: how often ball id's destroy() has run
    plays,         \* number of times PlayState.prepare has run
    calls,         \* the stop and prepare calls of the last transition, in order
    last           \* the handler that last changed the state, and what it did

vars == <<current, listening, wanted, payload, score, lives, level, gameover,
          balls, bricks, walls, paddleTicker, value, paddleX, pressed,
          timers, ballsSpawned, destroyed, plays, calls, last>>

\* ---------------------------------------------------------------- bounds
\* bricks spawned per level: the first MaxBricks of the level in spawn order
MaxBricks == 3
\* walls spawned: the first MaxWalls of spawnWalls
MaxWalls == 1
\* a tick's elapsed time is 100 ms times 1..MaxFrames
MaxFrames == 2
\* key-down and click are delivered while fewer requests than this are pending
MaxWanted == 2
\* Play is requested at most this many times
MaxPlays == 2

\* ------------------------------------------------------ program constants
hitTTL == 300
maxRows == 11
maxCols == 9
\* PlayState.paddleSpeed, .001 per ms, in thousandths per ms
paddleSpeed == 1
\* the countdown's interval and number of ticks
countdownTTL == 1000
countdownTicks == 3
startLives == 3
\* the playground's width in the layout the sizes are drawn for
playWidth == 480
\* PlayState.ballSpeed, .24 pixels per ms, in hundredths of a pixel per ms
ballSpeed == 24

levels ==
    << << 1,0,0,0,0,0,0,0,1,
          0,0,0,0,0,0,0,0,0,
          0,0,0,0,0,0,0,0,0,
          0,0,0,0,0,0,0,0,0,
          0,0,0,0,0,0,0,0,0,
          1,1,2,0,3,0,2,1,1,
          0,0,0,0,0,0,0,0,0,
          0,0,0,0,0,0,0,0,0,
          0,0,0,0,0,0,0,0,0,
          0,0,0,0,0,0,0,0,0,
          1,0,0,0,0,0,0,0,1 >>,
       << 0,0,0,0,0,0,0,0,0,
          0,0,0,0,0,0,0,0,0,
          0,0,0,0,0,0,0,0,0,
          0,1,1,1,1,1,1,1,0,
          1,0,1,1,1,1,1,0,1,
          0,2,2,3,1,3,2,2,0,
          0,0,0,0,0,0,0,0,0,
          0,0,0,0,0,0,0,0,0,
          0,0,0,0,0,0,0,0,0,
          0,0,0,0,0,0,0,0,0,
          0,0,0,0,0,0,0,0,0 >>,
       << 0,0,0,0,0,0,0,0,0,
          0,2,2,3,1,3,2,2,0,
          1,0,1,0,1,0,1,0,1,
          0,1,1,1,1,1,1,1,0,
          1,0,1,0,1,0,1,0,1,
          0,2,2,3,1,3,2,2,0,
          0,0,0,0,0,0,0,0,0,
          0,0,0,0,0,0,0,0,0,
          0,0,0,0,0,0,0,0,0,
          0,0,0,0,0,0,0,0,0,
          0,0,0,0,0,0,0,0,0 >> >>

Arrows == {"ArrowLeft", "ArrowRight"}

\* ---------------------------------------------------------------- helpers
Min(a, b) == IF a < b THEN a ELSE b
Max(a, b) == IF a > b THEN a ELSE b
Remove(s, i) == SubSeq(s, 1, i - 1) \o SubSeq(s, i + 1, Len(s))
Range(s) == {s[i] : i \in DOMAIN s}
\* Where a loop's state is used more than once it is bound as the element of
\* a one-element set: it is evaluated once, whatever uses it.
\* the indices of s whose element satisfies Test, in order
IndexOf(s, cell) ==
    IF \E i \in DOMAIN s : s[i].cell = cell
    THEN CHOOSE i \in DOMAIN s : s[i].cell = cell /\ \A j \in 1..(i - 1) : s[j].cell # cell
    ELSE 0

\* Angles are in degrees (pi is 180, pi/18 is 10) and are multiples of 5.
\* Math.cos in thousandths, for 0, 5, .. 90 degrees
CosQ ==
    <<1000, 996, 985, 966, 940, 906, 866, 819, 766, 707,
      643, 574, 500, 423, 342, 259, 174, 87, 0>>
Cos(a) ==
    IF a <= 90 THEN CosQ[a \div 5 + 1]
    ELSE IF a <= 180 THEN -CosQ[(180 - a) \div 5 + 1]
    ELSE IF a <= 270 THEN -CosQ[(a - 180) \div 5 + 1]
    ELSE CosQ[(360 - a) \div 5 + 1]
Sin(a) == Cos((a + 270) % 360)
\* Math.atan2 of a vector of direction a: the direction in (-180, 180]
Atan2(a) == LET m == a % 360 IN IF m > 180 THEN m - 360 ELSE m
\* x % y of JavaScript, whose sign is that of x
JsMod(x, y) == IF x >= 0 THEN x % y ELSE -((-x) % y)

\* Mathf.clamp and Mathf.lerp
clamp(v, lo, hi) == IF v < lo THEN lo ELSE IF v > hi THEN hi ELSE v
lerp(mina, maxa, minb, maxb, a) == minb + ((a - mina) * (maxb - minb)) \div (maxa - mina)

\* The mutable world the handlers act on: the variables as one record, so that a
\* handler that calls other handlers is a composition of operators.
World ==
    [current |-> current, listening |-> listening, wanted |-> wanted,
     payload |-> payload, score |-> score, lives |-> lives, level |-> level,
     gameover |-> gameover, balls |-> balls, bricks |-> bricks, walls |-> walls,
     paddleTicker |-> paddleTicker, value |-> value, paddleX |-> paddleX,
     pressed |-> pressed,
     timers |-> timers, ballsSpawned |-> ballsSpawned, destroyed |-> destroyed,
     plays |-> plays, calls |-> calls]

\* the step to world w, recorded as l
Commit(w, l) ==
    \E to \in {w} :
        /\ current' = to.current
        /\ listening' = to.listening
        /\ wanted' = to.wanted
        /\ payload' = to.payload
        /\ score' = to.score
        /\ lives' = to.lives
        /\ level' = to.level
        /\ gameover' = to.gameover
        /\ balls' = to.balls
        /\ bricks' = to.bricks
        /\ walls' = to.walls
        /\ paddleTicker' = to.paddleTicker
        /\ value' = to.value
        /\ paddleX' = to.paddleX
        /\ pressed' = to.pressed
        /\ timers' = to.timers
        /\ ballsSpawned' = to.ballsSpawned
        /\ destroyed' = to.destroyed
        /\ plays' = to.plays
        /\ calls' = to.calls
        /\ last' = IF to = World THEN last ELSE l

\* ------------------------------------------------------------ the library
\* new Timer({ttl, loop, cb}): kind names the callback; tick, wall and key are
\* what the callback's closure holds; held says that a PlayState field
\* (ballTicker, paddleTicker) refers to this timer.
Timer(kind, ttl, loop) ==
    [kind |-> kind, ttl |-> ttl, startTTL |-> ttl, loop |-> loop, due |-> FALSE,
     over |-> 0, held |-> FALSE, tick |-> 0, wall |-> 0, key |-> "none",
     age |-> 0, fired |-> 0]

NewTimer(w, t) == [w EXCEPT !.timers = Append(@, t)]

\* A field is assigned a new timer: the timer it referred to is not held any more.
NewHeldTimer(w, t) ==
    [w EXCEPT !.timers =
        Append([i \in DOMAIN @ |-> IF @[i].kind = t.kind THEN [@[i] EXCEPT !.held = FALSE] ELSE @[i]],
               [t EXCEPT !.held = TRUE])]

\* field.destroy(): the timer the field refers to is unscheduled; nothing happens
\* when it is unscheduled already.
RECURSIVE Unschedule(_, _)
Unschedule(ts, kind) ==
    IF ts = <<>> THEN <<>>
    ELSE IF Head(ts).kind = kind /\ Head(ts).held THEN Unschedule(Tail(ts), kind)
    ELSE <<Head(ts)>> \o Unschedule(Tail(ts), kind)

\* a destroy that takes the last scheduled timer when the field's timer is
\* unscheduled already
DestroyHeldOrLast(w, kind) ==
    IF \E i \in DOMAIN w.timers : w.timers[i].kind = kind /\ w.timers[i].held
    THEN [w EXCEPT !.timers = Unschedule(@, kind)]
    ELSE [w EXCEPT !.timers = SubSeq(@, 1, Len(@) - 1)]

DestroyHeld(w, kind) == [w EXCEPT !.timers = Unschedule(@, kind)]

\* StateMgr.start(tag, data): the transition is requested, not performed.
StateMgrStart(w, tag, data) ==
    [w EXCEPT !.wanted = Append(@, [state |-> tag, score |-> data])]

\* --------------------------------------------------------------- entities
\* new Brick({hits, score}): Brick.cpre derives the score from the hits when
\* none is given.  cell is the brick's (col, row), its identity.
Brick(cell, hits, sc) ==
    [cell |-> cell, hits |-> hits,
     score |-> IF sc = 0 THEN (IF hits = 0 THEN 1 ELSE hits) * 100 ELSE sc]

\* Brick.hit(): the brick after the hit; it is destroyed when hits <= 0.
BrickHit(b) == [b EXCEPT !.hits = @ - 1]

\* new Wall(): state 'idle'.  since is the time the wall has been in state hit.
Wall == [state |-> "idle", since |-> 0]

\* Wall.hit() that does not look at the wall's state
WallHitAlways(w, i) ==
    NewTimer([w EXCEPT !.walls[i] = [state |-> "hit", since |-> 0]],
             [Timer("wall", hitTTL, FALSE) EXCEPT !.wall = i])

\* Wall.hit() on this.walls[i]
WallHit(w, i) ==
    IF w.walls[i].state = "idle"
    THEN NewTimer([w EXCEPT !.walls[i] = [state |-> "hit", since |-> 0]],
                  [Timer("wall", hitTTL, FALSE) EXCEPT !.wall = i])
    ELSE w

\* the callback of the timer Wall.hit creates; wall 0 is a wall of an earlier
\* session, which this.walls holds no more
WallRevertCb(w, i) ==
    IF i \in DOMAIN w.walls THEN [w EXCEPT !.walls[i].state = "idle"] ELSE w


\* ball.destroy()
BallDestroy(w, id) ==
    IF id \in DOMAIN w.destroyed THEN [w EXCEPT !.destroyed[id] = @ + 1] ELSE w

\* -------------------------------------------------------------- PlayState
\* incrementScore that assigns the value
incrementScoreAssign(w, v) == [w EXCEPT !.score = v]

incrementScore(w, v) == [w EXCEPT !.score = @ + v]

\* startTimer that creates the countdown twice
startTimerTwice(w) ==
    NewTimer(NewTimer(w, [Timer("countdown", countdownTTL, TRUE) EXCEPT !.tick = countdownTicks]),
             [Timer("countdown", countdownTTL, TRUE) EXCEPT !.tick = countdownTicks])

startTimer(w) ==
    NewTimer(w, [Timer("countdown", countdownTTL, TRUE) EXCEPT !.tick = countdownTicks])

\* the playground's height: the background is 480 by 640, the playground
\* leaves 2/32 of it free at the top
playHeight == (640 * 30) \div 32
\* positions and displacements are in units of 1/100000 of a pixel
Pixel == 100 * 1000

\* new Ball({xform, speed, angle})
Ball(id, angle, x, y) == [id |-> id, colliding |-> FALSE, angle |-> angle, x |-> x, y |-> y]

\* spawnBall, with the angle and the x that Random gives
spawnBall(w, angle, x) ==
    [w EXCEPT !.ballsSpawned = @ + 1,
              !.destroyed = Append(@, 0),
              !.balls = Append(@, Ball(w.ballsSpawned + 1, angle, x * Pixel,
                                       ((playHeight * 15) \div 30) * Pixel))]

\* the callback of the countdown timer, which is this.timers[i]
\* the callback without timer.destroy()
CountdownCbKeepsTimer(w, i, angle, x) ==
    LET tick == w.timers[i].tick - 1
    IN  IF tick > 0
        THEN [w EXCEPT !.timers[i].tick = tick]
        ELSE spawnBall([w EXCEPT !.timers[i].tick = tick], angle, x)

CountdownCb(w, i, angle, x) ==
    LET tick == w.timers[i].tick - 1
    IN  IF tick > 0
        THEN [w EXCEPT !.timers[i].tick = tick]
        ELSE spawnBall([w EXCEPT !.timers = Remove(@, i)], angle, x)

RECURSIVE SpawnWallsFrom(_, _)
SpawnWallsFrom(w, n) ==
    IF n >= MaxWalls THEN w
    ELSE SpawnWallsFrom([w EXCEPT !.walls = Append(@, Wall)], n + 1)

spawnWalls(w) == SpawnWallsFrom(w, 0)

\* spawnBrick with the default score of a brick
spawnBrickDefaultScore(w, col, row, hits) ==
    [w EXCEPT !.bricks = Append(@, Brick(<<col, row>>, hits, 100))]

spawnBrick(w, col, row, hits) ==
    [w EXCEPT !.bricks = Append(@, Brick(<<col, row>>, hits, hits * 100))]

\* level[idx]: an index past the end of the array reads undefined, which is
\* falsy as 0 is
CellAt(grid, k) == IF k + 1 \in DOMAIN grid THEN grid[k + 1] ELSE 0

\* the hit counts a brick's image exists for (assets brick.1 to brick.3)
HasSketch(hits) == hits \in 1..3

\* the loops of spawnLevel over a grid, r the world and whether an error was
\* thrown; at most cap bricks are spawned. The code tests nothing but the cell
\* being falsy. What the library does when asked for the image of a brick that
\* has none is not in the source: it either throws (throws), which ends the
\* loops where they are, or it does not and the brick is spawned.
\* The inner loop, from row j of column i, the world and the error of the
\* rows before being r0:
RECURSIVE SpawnRows(_, _, _, _, _, _)
SpawnRows(r0, grid, i, j, cap, throws) ==
    CHOOSE out \in
        {IF j >= maxRows \/ r.error \/ Len(r.w.bricks) >= cap THEN r
         ELSE LET brickTag == CellAt(grid, i + j * maxCols)
              IN  IF brickTag = 0 THEN SpawnRows(r, grid, i, j + 1, cap, throws)
                  ELSE IF throws /\ ~HasSketch(brickTag) THEN [r EXCEPT !.error = TRUE]
                  ELSE SpawnRows([r EXCEPT !.w = spawnBrick(r.w, i, j, brickTag)],
                                 grid, i, j + 1, cap, throws) : r \in {r0}} : TRUE

\* the outer loop, from column i
RECURSIVE SpawnCols(_, _, _, _, _)
SpawnCols(r0, grid, i, cap, throws) ==
    CHOOSE out \in
        {IF i >= maxCols \/ r.error THEN r
         ELSE SpawnCols(SpawnRows(r, grid, i, 0, cap, throws), grid, i + 1, cap, throws)
            : r \in {r0}} : TRUE

SpawnLevelFrom(w, idx, i) ==
    SpawnCols([w |-> w, error |-> FALSE], levels[idx + 1], i, MaxBricks, FALSE).w

spawnLevel(w, idx) == SpawnLevelFrom([w EXCEPT !.level = idx], idx, 0)

RECURSIVE DestroyBalls(_, _)
DestroyBalls(w, bs) ==
    IF bs = <<>> THEN w ELSE DestroyBalls(BallDestroy(w, Head(bs).id), Tail(bs))

\* handleLevelComplete with the test for the last level off by one
handleLevelCompleteOffByOne(w) ==
    LET w1 == [DestroyBalls(w, w.balls) EXCEPT !.balls = <<>>]
    IN  IF w1.level + 1 > Len(levels)
        THEN StateMgrStart(w1, "win", w1.score)
        ELSE NewTimer(w1, Timer("level", 0, FALSE))

\* handleLevelComplete that leaves the balls alone
handleLevelCompleteKeepsBalls(w) ==
    IF w.level + 1 >= Len(levels)
    THEN StateMgrStart(w, "win", w.score)
    ELSE NewTimer(w, Timer("level", 0, FALSE))

\* handleLevelComplete that starts 'win' with no score
handleLevelCompleteNoScore(w) ==
    LET w1 == [DestroyBalls(w, w.balls) EXCEPT !.balls = <<>>]
    IN  IF w1.level + 1 >= Len(levels)
        THEN StateMgrStart(w1, "win", 0)
        ELSE NewTimer(w1, Timer("level", 0, FALSE))

handleLevelComplete(w) ==
    LET w1 == [DestroyBalls(w, w.balls) EXCEPT !.balls = <<>>]
    IN  IF w1.level + 1 >= Len(levels)
        THEN StateMgrStart(w1, "win", w1.score)
        ELSE NewTimer(w1, Timer("level", 0, FALSE))

\* spawnLevel with every brick of the level
spawnLevelAll(w, idx) ==
    SpawnCols([w |-> [w EXCEPT !.level = idx], error |-> FALSE],
              levels[idx + 1], 0, maxCols * maxRows, FALSE).w

\* the callback of the timer handleLevelComplete creates, with every brick
LevelAdvanceCbAll(w) == startTimer(spawnLevelAll(w, w.level + 1))

\* a callback that spawns no bricks
LevelAdvanceCbNoSpawn(w) == startTimer([w EXCEPT !.level = @ + 1])

\* a callback that passes over a level
LevelAdvanceCbSkips(w) == startTimer(spawnLevel(w, w.level + 2))

\* the callback of the timer handleLevelComplete creates
LevelAdvanceCb(w) == startTimer(spawnLevel(w, w.level + 1))

\* onBrickDestroyed that scores the hits the brick had left before the last hit
onBrickDestroyedRemaining(w, b) ==
    IF w.gameover THEN w
    ELSE LET idx == IndexOf(w.bricks, b.cell)
             w1 == IF idx # 0
                   THEN incrementScore([w EXCEPT !.bricks = Remove(@, idx)], (b.hits + 1) * 100)
                   ELSE w
         IN  IF Len(w1.bricks) = 0 THEN handleLevelComplete(w1) ELSE w1

\* onBrickDestroyed that does not look at this.gameover
onBrickDestroyedUnguarded(w, b) ==
    LET idx == IndexOf(w.bricks, b.cell)
        w1 == IF idx # 0
              THEN incrementScore([w EXCEPT !.bricks = Remove(@, idx)], b.score)
              ELSE w
    IN  IF Len(w1.bricks) = 0 THEN handleLevelComplete(w1) ELSE w1

\* onBrickDestroyed for the brick b (evt.actor)
onBrickDestroyed(w, b) ==
    IF w.gameover THEN w
    ELSE LET idx == IndexOf(w.bricks, b.cell)
             w1 == IF idx # 0
                   THEN incrementScore([w EXCEPT !.bricks = Remove(@, idx)], b.score)
                   ELSE w
         IN  IF Len(w1.bricks) = 0 THEN handleLevelComplete(w1) ELSE w1

\* lostBall with the test for remaining lives off by one
lostBallOffByOne(w, ball) ==
    LET idx == IF \E i \in DOMAIN w.balls : w.balls[i].id = ball.id
               THEN CHOOSE i \in DOMAIN w.balls : w.balls[i].id = ball.id
               ELSE 0
        w1 == IF idx # 0 THEN [w EXCEPT !.balls = Remove(@, idx)] ELSE w
        w2 == BallDestroy(w1, ball.id)
    IN  IF Len(w2.balls) = 0
        THEN LET w3 == [w2 EXCEPT !.lives = @ - 1]
             IN  IF w3.lives > 1
                 THEN startTimer(w3)
                 ELSE StateMgrStart([w3 EXCEPT !.gameover = TRUE], "gameover", w3.score)
        ELSE w2

\* lostBall that starts no countdown when lives remain
lostBallNoRestart(w, ball) ==
    LET idx == IF \E i \in DOMAIN w.balls : w.balls[i].id = ball.id
               THEN CHOOSE i \in DOMAIN w.balls : w.balls[i].id = ball.id
               ELSE 0
        w1 == IF idx # 0 THEN [w EXCEPT !.balls = Remove(@, idx)] ELSE w
        w2 == BallDestroy(w1, ball.id)
    IN  IF Len(w2.balls) = 0
        THEN LET w3 == [w2 EXCEPT !.lives = @ - 1]
             IN  IF w3.lives > 0
                 THEN w3
                 ELSE StateMgrStart([w3 EXCEPT !.gameover = TRUE], "gameover", w3.score)
        ELSE w2

\* lostBall that leaves the ball in this.balls
lostBallNoSplice(w, ball) ==
    LET w2 == BallDestroy(w, ball.id)
    IN  IF Len(w2.balls) = 0
        THEN LET w3 == [w2 EXCEPT !.lives = @ - 1]
             IN  IF w3.lives > 0
                 THEN startTimer(w3)
                 ELSE StateMgrStart([w3 EXCEPT !.gameover = TRUE], "gameover", w3.score)
        ELSE w2

\* lostBall that starts the countdown before it looks at the lives
lostBallCountsDown(w, ball) ==
    LET idx == IF \E i \in DOMAIN w.balls : w.balls[i].id = ball.id
               THEN CHOOSE i \in DOMAIN w.balls : w.balls[i].id = ball.id
               ELSE 0
        w1 == IF idx # 0 THEN [w EXCEPT !.balls = Remove(@, idx)] ELSE w
        w2 == BallDestroy(w1, ball.id)
    IN  IF Len(w2.balls) = 0
        THEN LET w3 == startTimer([w2 EXCEPT !.lives = @ - 1])
             IN  IF w3.lives > 0
                 THEN w3
                 ELSE StateMgrStart([w3 EXCEPT !.gameover = TRUE], "gameover", w3.score)
        ELSE w2

lostBall(w, ball) ==
    LET idx == IF \E i \in DOMAIN w.balls : w.balls[i].id = ball.id
               THEN CHOOSE i \in DOMAIN w.balls : w.balls[i].id = ball.id
               ELSE 0
        w1 == IF idx # 0 THEN [w EXCEPT !.balls = Remove(@, idx)] ELSE w
        w2 == BallDestroy(w1, ball.id)
    IN  IF Len(w2.balls) = 0
        THEN LET w3 == [w2 EXCEPT !.lives = @ - 1]
             IN  IF w3.lives > 0
                 THEN startTimer(w3)
                 ELSE StateMgrStart([w3 EXCEPT !.gameover = TRUE], "gameover", w3.score)
        ELSE w2

\* brick.hit() that destroys the brick when its hits are below zero
HitBrickAtBelowZero(w, k) ==
    LET b == BrickHit(w.bricks[k])
        w1 == [w EXCEPT !.bricks[k] = b]
    IN  IF b.hits < 0 THEN onBrickDestroyed(w1, b) ELSE w1

\* brick.hit() on the brick at this.bricks[k]; destroy() notifies onBrickDestroyed
HitBrickAt(w, k) ==
    LET b == BrickHit(w.bricks[k])
        w1 == [w EXCEPT !.bricks[k] = b]
    IN  IF b.hits <= 0 THEN onBrickDestroyed(w1, b) ELSE w1

\* for (const brick of this.bricks): the iterator reads this.bricks[k - 1] of
\* the array as it is then, so a splice by onBrickDestroyed moves the bricks
\* behind the destroyed one a place down.  r holds the world, wantAngle and
\* collided; angle is ball.angle.
RECURSIVE BrickLoop(_, _, _, _)
BrickLoop(r0, k, g, angle) ==
    CHOOSE out \in
        {IF k > Len(r.w.bricks) THEN r
         ELSE IF r.w.bricks[k].cell \in g.bricks
         THEN BrickLoop([w |-> HitBrickAt(r.w, k),
                         want |-> IF r.w.bricks[k].cell \in g.wide
                                  THEN 360 - angle ELSE 180 - angle,
                         collided |-> TRUE],
                        k + 1, g, angle)
         ELSE BrickLoop(r, k + 1, g, angle) : r \in {r0}} : TRUE

\* the loop over the walls without the test of the bounds
RECURSIVE HitWallsAll(_, _, _)
HitWallsAll(w, i, g) ==
    IF i > Len(w.walls) THEN w
    ELSE HitWallsAll(WallHit(w, i), i + 1, g)

\* for (const wall of this.walls) if (wall.bounds.overlaps(ballBounds)) wall.hit()
RECURSIVE HitWalls(_, _, _)
HitWalls(w, i, g) ==
    IF i > Len(w.walls) THEN w
    ELSE HitWalls(IF i \in g.walls THEN WallHit(w, i) ELSE w, i + 1, g)

SetColliding(w, id, c) ==
    [w EXCEPT !.balls = [i \in DOMAIN @ |-> IF @[i].id = id THEN [@[i] EXCEPT !.colliding = c] ELSE @[i]]]

\* the sanity checks without the check below pi
ResolveNotBelowPi(wantAngle) ==
    LET a0 == JsMod(wantAngle + 360, 360)
        a1 == IF a0 >= 0 /\ a0 < 10 THEN 10 ELSE a0
        a2 == IF a1 <= 360 /\ a1 > 360 - 10 THEN 360 - 10 ELSE a1
    IN  IF a2 > 180 /\ a2 < 180 + 10 THEN 180 + 10 ELSE a2

\* the sanity checks without the check below 2 pi
ResolveNotBelowTwoPi(wantAngle) ==
    LET a0 == JsMod(wantAngle + 360, 360)
        a1 == IF a0 >= 0 /\ a0 < 10 THEN 10 ELSE a0
        a3 == IF a1 <= 180 /\ a1 > 180 - 10 THEN 180 - 10 ELSE a1
    IN  IF a3 > 180 /\ a3 < 180 + 10 THEN 180 + 10 ELSE a3

\* the sanity checks on the wanted angle as it is, not brought into 0 up to 360
ResolveNoWrap(wantAngle) ==
    LET a0 == wantAngle
        a1 == IF a0 >= 0 /\ a0 < 10 THEN 10 ELSE a0
        a2 == IF a1 <= 360 /\ a1 > 360 - 10 THEN 360 - 10 ELSE a1
        a3 == IF a2 <= 180 /\ a2 > 180 - 10 THEN 180 - 10 ELSE a2
    IN  IF a3 > 180 /\ a3 < 180 + 10 THEN 180 + 10 ELSE a3

\* the angle normalization and sanity checks of onBallTick
Resolve(wantAngle) ==
    LET a0 == JsMod(wantAngle + 360, 360)
        a1 == IF a0 >= 0 /\ a0 < 10 THEN 10 ELSE a0
        a2 == IF a1 <= 360 /\ a1 > 360 - 10 THEN 360 - 10 ELSE a1
        a3 == IF a2 <= 180 /\ a2 > 180 - 10 THEN 180 - 10 ELSE a2
    IN  IF a3 > 180 /\ a3 < 180 + 10 THEN 180 + 10 ELSE a3

\* ball.angle = a, or ball.xform.x += dx and ball.xform.y += dy, on the Ball
\* object id, which this.balls may hold no more
SetAngle(w, id, a) ==
    [w EXCEPT !.balls = [i \in DOMAIN @ |-> IF @[i].id = id THEN [@[i] EXCEPT !.angle = a] ELSE @[i]]]
\* a move along x only
MoveAlongX(w, id, dx, dy) ==
    [w EXCEPT !.balls = [i \in DOMAIN @ |->
        IF @[i].id = id THEN [@[i] EXCEPT !.x = @ + dx] ELSE @[i]]]
Move(w, id, dx, dy) ==
    [w EXCEPT !.balls = [i \in DOMAIN @ |->
        IF @[i].id = id THEN [@[i] EXCEPT !.x = @ + dx, !.y = @ + dy] ELSE @[i]]]

\* the paddle test without the colliding flag
HitsPaddleAlways(ball, g) == g.paddle # "none"

\* if (ballBounds.overlaps(this.paddle.bounds)) if (!ball.colliding): the
\* paddle counts as a collision
HitsPaddle(ball, g) == g.paddle # "none" /\ ~ball.colliding

\* the loop body with the bottom edge tested after the bricks
BallStepBricksFirst(w, ball, g, e) ==
    LET dx == Cos(ball.angle) * ballSpeed * e
        dy == Sin(ball.angle) * ballSpeed * e
        hitPaddle == HitsPaddle(ball, g)
        w1 == IF g.paddle # "none"
              THEN (IF ~ball.colliding THEN SetColliding(w, ball.id, TRUE) ELSE w)
              ELSE SetColliding(w, ball.id, FALSE)
        a1 == IF hitPaddle /\ g.paddle = "top" THEN Atan2(180 + 2 * g.tilt - ball.angle)
              ELSE IF hitPaddle /\ g.paddle = "edge" THEN 180 - ball.angle
              ELSE ball.angle
        w2 == IF g.side # "none" THEN HitWalls(w1, 1, g) ELSE w1
        a2 == IF g.side # "none" THEN 180 - ball.angle ELSE a1
        w3 == IF g.vert = "top" THEN HitWalls(w2, 1, g) ELSE w2
        a3 == IF g.vert = "top" THEN 360 - ball.angle ELSE a2
        r == BrickLoop([w |-> w3, want |-> a3,
                        collided |-> hitPaddle \/ g.side # "none" \/ g.vert = "top"],
                       1, g, ball.angle)
    IN  IF g.vert = "bottom"
        THEN [w |-> lostBall(r.w, ball), lost |-> TRUE]
        ELSE CHOOSE out \in
                 {[w |-> IF to.collided
                         THEN SetAngle(to.w, ball.id, Resolve(to.want))
                         ELSE Move(to.w, ball.id, dx, dy),
                   lost |-> FALSE] : to \in {r}} : TRUE

\* the body of the loop with the side walls' reflection kept at the top edge
BallStepSideWins(w, ball, g, e) ==
    LET dx == Cos(ball.angle) * ballSpeed * e
        dy == Sin(ball.angle) * ballSpeed * e
        hitPaddle == HitsPaddle(ball, g)
        w1 == IF g.paddle # "none"
              THEN (IF ~ball.colliding THEN SetColliding(w, ball.id, TRUE) ELSE w)
              ELSE SetColliding(w, ball.id, FALSE)
        a1 == IF hitPaddle /\ g.paddle = "top" THEN Atan2(180 + 2 * g.tilt - ball.angle)
              ELSE IF hitPaddle /\ g.paddle = "edge" THEN 180 - ball.angle
              ELSE ball.angle
        w2 == IF g.side # "none" THEN HitWalls(w1, 1, g) ELSE w1
        a2 == IF g.side # "none" THEN 180 - ball.angle ELSE a1
        w3 == IF g.vert = "top" THEN HitWalls(w2, 1, g) ELSE w2
        a3 == IF g.vert = "top" /\ g.side = "none" THEN 360 - ball.angle ELSE a2
        r == BrickLoop([w |-> w3, want |-> a3,
                        collided |-> hitPaddle \/ g.side # "none" \/ g.vert = "top"],
                       1, g, ball.angle)
    IN  IF g.vert = "bottom"
        THEN [w |-> lostBall(w3, ball), lost |-> TRUE]
        ELSE CHOOSE out \in
                 {[w |-> IF to.collided
                         THEN SetAngle(to.w, ball.id, Resolve(to.want))
                         ELSE Move(to.w, ball.id, dx, dy),
                   lost |-> FALSE] : to \in {r}} : TRUE

\* the body of onBallTick's loop for one ball, with what its candidate bounds
\* overlap given by g and data.elapsed = e: the world after it, and whether the
\* ball was lost (onBallTick returns then)
BallStep(w, ball, g, e) ==
    LET dx == Cos(ball.angle) * ballSpeed * e
        dy == Sin(ball.angle) * ballSpeed * e
        hitPaddle == HitsPaddle(ball, g)
        w1 == IF g.paddle # "none"
              THEN (IF ~ball.colliding THEN SetColliding(w, ball.id, TRUE) ELSE w)
              ELSE SetColliding(w, ball.id, FALSE)
        a1 == IF hitPaddle /\ g.paddle = "top" THEN Atan2(180 + 2 * g.tilt - ball.angle)
              ELSE IF hitPaddle /\ g.paddle = "edge" THEN 180 - ball.angle
              ELSE ball.angle
        w2 == IF g.side # "none" THEN HitWalls(w1, 1, g) ELSE w1
        a2 == IF g.side # "none" THEN 180 - ball.angle ELSE a1
        w3 == IF g.vert = "top" THEN HitWalls(w2, 1, g) ELSE w2
        a3 == IF g.vert = "top" THEN 360 - ball.angle ELSE a2
        r == BrickLoop([w |-> w3, want |-> a3,
                        collided |-> hitPaddle \/ g.side # "none" \/ g.vert = "top"],
                       1, g, ball.angle)
    IN  IF g.vert = "bottom"
        THEN [w |-> lostBall(w3, ball), lost |-> TRUE]
        ELSE CHOOSE out \in
                 {[w |-> IF to.collided
                         THEN SetAngle(to.w, ball.id, Resolve(to.want))
                         ELSE Move(to.w, ball.id, dx, dy),
                   lost |-> FALSE] : to \in {r}} : TRUE

\* for (const ball of this.balls): arr is the array the loop iterates, which
\* handleLevelComplete replaces in this.balls but not in the loop
RECURSIVE BallLoop(_, _, _, _, _)
BallLoop(w, arr, k, gs, e) ==
    IF k > Len(arr) THEN w
    ELSE CHOOSE out \in
             {IF r.lost THEN r.w ELSE BallLoop(r.w, arr, k + 1, gs, e)
                 : r \in {BallStep(w, arr[k], gs[arr[k].id], e)}} : TRUE

\* onBallTick with data.elapsed = e
onBallTick(w, gs, e) == BallLoop(w, w.balls, 1, gs, e)

\* the paddle's x is held in 1/100 of a pixel
Centi == Pixel \div 1000
\* paddle.xform.fixedWidth, as prepare sets it
paddleWidth == (playWidth * 3) \div 24
\* o.xform.parent.width * o.edgeWidthPct, with Paddle.edgeWidthPct 1/24
paddleEdgeWidth == playWidth \div 24
\* this.leftEdge and this.rightEdge, with PlayState.wallWidthPct 1/24
leftEdge == playWidth \div 24
rightEdge == playWidth - playWidth \div 24

\* the last step of prepare: the paddle is placed for its value
PreparePaddle(w) ==
    [w EXCEPT !.paddleX = lerp(0, 1000, leftEdge * Centi + (paddleWidth * Centi) \div 2,
                               rightEdge * Centi - (paddleWidth * Centi) \div 2, w.value)]

\* an onSet that takes the playground's edges for the playable edges
PaddleOnSetNoInset(w) ==
    [w EXCEPT !.paddleX = lerp(0, 1000, (paddleWidth * Centi) \div 2,
                               playWidth * Centi - (paddleWidth * Centi) \div 2, w.value)]

\* onSet of Paddle.value: the playground's minx is 0 and its maxx its width
PaddleOnSet(w) ==
    LET left == (0 + paddleEdgeWidth) * Centi
        right == (playWidth - paddleEdgeWidth) * Centi
    IN  [w EXCEPT !.paddleX = lerp(0, 1000, left + (paddleWidth * Centi) \div 2,
                                   right - (paddleWidth * Centi) \div 2, w.value)]

\* a setter that stores what it is given
PaddleSetValueUnclamped(w, v) == PaddleOnSet([w EXCEPT !.value = v])

\* the setter of Paddle.value, and onSet
PaddleSetValue(w, v) == PaddleOnSet([w EXCEPT !.value = clamp(v, 0, 1000)])

\* the callback of the paddle ticker for key, with data.elapsed = e
PaddleTickCb(w, key, e) ==
    LET delta == (IF key = "ArrowLeft" THEN -paddleSpeed ELSE paddleSpeed) * e
    IN  PaddleSetValue(w, w.value + delta)

onKeyEvt(w, tag, key) ==
    IF key \notin Arrows THEN w
    ELSE IF tag = "key.down"
    THEN LET w1 == IF w.paddleTicker THEN DestroyHeld(w, "paddle") ELSE w
         IN  [NewHeldTimer(w1, [Timer("paddle", 0, TRUE) EXCEPT !.key = key])
                 EXCEPT !.paddleTicker = TRUE]
    ELSE IF "ArrowLeft" \notin w.pressed /\ "ArrowRight" \notin w.pressed /\ w.paddleTicker
    THEN DestroyHeld(w, "paddle")
    ELSE w


\* onMouseEvt with the mouse at x in the playground's coordinates
onMouseEvt(w, over, x) ==
    IF ~over THEN w
    ELSE PaddleSetValue(w, clamp(lerp(paddleWidth \div 2, playWidth - paddleWidth \div 2, 0, 1000, x), 0, 1000))

\* a timer of an earlier session's wall refers to no wall of this.walls
Stale(ts) == [i \in DOMAIN ts |-> IF ts[i].kind = "wall" THEN [ts[i] EXCEPT !.wall = 0] ELSE ts[i]]

\* prepare that does not set this.lives
PlayPrepareKeepsLives(w) ==
    LET w0 == [w EXCEPT !.score = 0, !.level = 0,
                        !.gameover = FALSE, !.balls = <<>>, !.bricks = <<>>,
                        !.walls = <<>>, !.value = 500, !.payload = 0,
                        !.listening = @ \cup {"play"},
                        !.timers = Stale(@), !.ballsSpawned = 0,
                        !.destroyed = <<>>, !.plays = @ + 1]
        w1 == spawnWalls(PreparePaddle(w0))
        w2 == spawnLevel(w1, w1.level)
        w3 == startTimer(w2)
    IN  NewHeldTimer(w3, Timer("ball", 0, TRUE))

PlayPrepare(w) ==
    LET w0 == [w EXCEPT !.score = 0, !.lives = startLives, !.level = 0,
                        !.gameover = FALSE, !.balls = <<>>, !.bricks = <<>>,
                        !.walls = <<>>, !.value = 500, !.payload = 0,
                        !.listening = @ \cup {"play"},
                        !.timers = Stale(@), !.ballsSpawned = 0,
                        !.destroyed = <<>>, !.plays = @ + 1]
        w1 == spawnWalls(PreparePaddle(w0))
        w2 == spawnLevel(w1, w1.level)
        w3 == startTimer(w2)
    IN  NewHeldTimer(w3, Timer("ball", 0, TRUE))

\* this.cvs.destroy() destroys the playground's children: every brick still
\* alive notifies onBrickDestroyed
RECURSIVE DestroyBricks(_, _)
DestroyBricks(w, bs) ==
    IF bs = <<>> THEN w ELSE DestroyBricks(onBrickDestroyed(w, Head(bs)), Tail(bs))

\* stop that leaves the key and mouse listeners registered
PlayStopKeepsListeners(w) ==
    LET w1 == DestroyBricks(DestroyBalls(w, w.balls), w.bricks)
        w2 == DestroyHeld(w1, "ball")
    IN  IF w2.paddleTicker THEN DestroyHeld(w2, "paddle") ELSE w2

PlayStop(w) ==
    LET w0 == [w EXCEPT !.listening = @ \ {"play"}]
        w1 == DestroyBricks(DestroyBalls(w0, w0.balls), w0.bricks)
        w2 == DestroyHeld(w1, "ball")
    IN  IF w2.paddleTicker THEN DestroyHeld(w2, "paddle") ELSE w2

\* ------------------------------------------- TitleState, GameOverState, WinState
\* the key.down and mouse.clicked listeners
TitleOnInput(w) == StateMgrStart(w, "play", 0)
\* a listener that starts the next game at once
GameOverOnInputPlay(w) == StateMgrStart(w, "play", 0)
GameOverOnInput(w) == StateMgrStart(w, "title", 0)
WinOnInput(w) == StateMgrStart(w, "title", 0)

TitlePrepare(w) == [w EXCEPT !.listening = @ \cup {"title"}, !.payload = 0]
TitleStop(w) == [w EXCEPT !.listening = @ \ {"title"}]
\* let score = data.score || 0
GameOverPrepare(w, data) == [w EXCEPT !.listening = @ \cup {"gameover"}, !.payload = data]
GameOverStop(w) == [w EXCEPT !.listening = @ \ {"gameover"}]
WinPrepare(w, data) == [w EXCEPT !.listening = @ \cup {"win"}, !.payload = data]
WinStop(w) == [w EXCEPT !.listening = @ \ {"win"}]

\* ------------------------------------------------------------- StateMgr
Called(w, what, tag) == [w EXCEPT !.calls = Append(@, <<what, tag>>)]

Stop(w, tag) ==
    CASE tag = "title" -> Called(TitleStop(w), "stop", tag)
      [] tag = "play" -> Called(PlayStop(w), "stop", tag)
      [] tag = "gameover" -> Called(GameOverStop(w), "stop", tag)
      [] tag = "win" -> Called(WinStop(w), "stop", tag)
      [] OTHER -> w

Prepare(w, tag, data) ==
    CASE tag = "title" -> TitlePrepare(Called(w, "prepare", tag))
      [] tag = "play" -> PlayPrepare(Called(w, "prepare", tag))
      [] tag = "gameover" -> GameOverPrepare(Called(w, "prepare", tag), data)
      [] tag = "win" -> WinPrepare(Called(w, "prepare", tag), data)
      [] OTHER -> w

\* the requested state is started: the started state is stopped first, and its
\* stop has returned when the requested state's prepare is called
startState(w, tag, data) ==
    [Prepare(Stop([w EXCEPT !.calls = <<>>], w.current), tag, data) EXCEPT !.current = tag]

\* a request that names the started state is dropped
onStateWanted(w) ==
    LET r == Head(w.wanted)
        w0 == [w EXCEPT !.wanted = Tail(@)]
    IN  IF r.state = w0.current THEN w0 ELSE startState(w0, r.state, r.score)

\* Timer.onTock for one timer, e ms after the last tick: a timer whose ttl has run
\* out is due; a looping timer is scheduled again
Elapse(t, e) ==
    LET n == t.ttl - e
    IN  IF n > 0 THEN [t EXCEPT !.ttl = n]
        ELSE [t EXCEPT !.due = TRUE, !.over = -n,
                       !.ttl = IF t.loop THEN Max(n + t.startTTL, 0) ELSE 0]

\* --------------------------------------------------------------- Breakout
\* Breakout.prepare: the four states are created and 'title' is requested
BreakoutPrepare(w) == StateMgrStart(w, "title", 0)

\* what the record of the last handler holds of the state it started in
NoPre ==
    [score |-> 0, lives |-> 0, level |-> 0, balls |-> <<>>, bricks |-> <<>>,
     walls |-> <<>>, value |-> 0, current |-> "none"]
Pre ==
    [score |-> score, lives |-> lives, level |-> level, balls |-> balls,
     bricks |-> bricks, walls |-> walls, value |-> value, current |-> current]
\* lost: the balls whose bottom-edge check fired; hit: the bricks a ball's bounds
\* intersected; wallsHit: the walls whose hit() was called
\* gs and elapsed: what the balls' bounds overlapped and data.elapsed, where the
\* flight of the balls is followed; grid: the level grid that was loaded
Did(op) ==
    [op |-> op, lost |-> {}, hit |-> {}, wallsHit |-> {}, pre |-> NoPre,
     gs |-> <<>>, elapsed |-> 0, grid |-> <<>>, error |-> FALSE, trail |-> <<>>]

InitWorld ==
    BreakoutPrepare(
        [current |-> "none", listening |-> {}, wanted |-> <<>>, payload |-> 0,
         score |-> 0, lives |-> 0, level |-> 0, gameover |-> FALSE,
         balls |-> <<>>, bricks |-> <<>>, walls |-> <<>>, paddleTicker |-> FALSE,
         value |-> 500, paddleX |-> 0, pressed |-> {}, timers |-> <<>>, ballsSpawned |-> 0,
         destroyed |-> <<>>, plays |-> 0, calls |-> <<>>])

Init ==
    /\ current = InitWorld.current
    /\ listening = InitWorld.listening
    /\ wanted = InitWorld.wanted
    /\ payload = InitWorld.payload
    /\ score = InitWorld.score
    /\ lives = InitWorld.lives
    /\ level = InitWorld.level
    /\ gameover = InitWorld.gameover
    /\ balls = InitWorld.balls
    /\ bricks = InitWorld.bricks
    /\ walls = InitWorld.walls
    /\ paddleTicker = InitWorld.paddleTicker
    /\ value = InitWorld.value
    /\ paddleX = InitWorld.paddleX
    /\ pressed = InitWorld.pressed
    /\ timers = InitWorld.timers
    /\ ballsSpawned = InitWorld.ballsSpawned
    /\ destroyed = InitWorld.destroyed
    /\ plays = InitWorld.plays
    /\ calls = InitWorld.calls
    /\ last = Did("Init")

\* ----------------------------------------------------------------- inputs
Elapsed == {100 * k : k \in 1..MaxFrames}

\* a ball is as wide as half a brick: the bricks its bounds intersect lie in
\* two neighbouring columns and two neighbouring rows
Adjacent(S) == \A a \in S : \A b \in S : a[1] - b[1] \in -1..1 /\ a[2] - b[2] \in -1..1

\* paddle: the ball's bounds miss the paddle ("none"), or their intersection with
\* it is at least as wide as high ("top", at a place that gives the tilt) or
\* higher than wide ("edge"); side, vert: the edge tests that hold; walls: the
\* walls that overlap; bricks: the bricks that intersect, those of wide by an
\* intersection at least as wide as high
Geom(p, s, v, ws, bs) ==
    [paddle |-> p, side |-> s, vert |-> v, walls |-> ws, bricks |-> bs,
     tilt |-> 270, wide |-> bs]

\* free flight, or over the paddle while still colliding with it
GeomFree == {Geom("none", "none", "none", {}, {})}

\* what a ball's candidate bounds can overlap: bricks (which lie clear of the
\* walls and the paddle), or the paddle, the side and top walls, or the bottom
Geoms ==
    {Geom("none", "none", "none", {}, S) : S \in {T \in SUBSET {b.cell : b \in Range(bricks)} : Adjacent(T)}}
    \cup {Geom(p, "none", "none", {}, {}) : p \in {"top", "edge"}}
    \cup {Geom(p, s, v, ws, {}) : p \in {"none", "edge"}, s \in {"left", "right"},
                                  v \in {"none"}, ws \in SUBSET DOMAIN walls}
    \cup {Geom("none", s, "top", ws, {}) : s \in {"none", "left", "right"}, ws \in SUBSET DOMAIN walls}
    \cup {Geom("none", "none", "bottom", {}, {})}
    \cup {Geom("none", s, "bottom", ws, {}) : s \in {"left", "right"}, ws \in SUBSET DOMAIN walls}

\* what Random gives spawnBall: an angle of .35 pi to .65 pi and an x that keeps
\* the ball clear of the walls.  Where the flight of the balls is not followed,
\* every ball is held at the middle of these.
SpawnAngles == {90}
SpawnXs == {240}
AtRest(b) ==
    [Ball(b.id, 90, 240 * Pixel, ((playHeight * 15) \div 30) * Pixel)
        EXCEPT !.colliding = b.colliding]
Untracked(w) == [w EXCEPT !.balls = [i \in DOMAIN @ |-> AtRest(@[i])]]

\* the mouse positions delivered, in the playground's coordinates
MouseXs == {9, 30, 51, 240, 450, 471}

\* ---------------------------------------------------------------- actions
AnyDue == \E i \in DOMAIN timers : timers[i].due
FirstDue == CHOOSE i \in DOMAIN timers : timers[i].due /\ \A j \in 1..(i - 1) : ~timers[j].due
DueKind == IF AnyDue THEN timers[FirstDue].kind ELSE "none"

\* the timer that fires: a one-shot timer is unscheduled before its callback runs.
\* A countdown keeps the time since it was created (age) and the number of
\* times it has fired.
Fired(w) ==
    IF w.timers[FirstDue].loop
    THEN [w EXCEPT !.timers[FirstDue].due = FALSE, !.timers[FirstDue].over = 0,
                   !.timers[FirstDue].fired =
                       IF w.timers[FirstDue].kind = "countdown" THEN @ + 1 ELSE @]
    ELSE [w EXCEPT !.timers = Remove(@, FirstDue)]

Aged(t, e) == IF t.kind = "countdown" THEN [t EXCEPT !.age = @ + e] ELSE t

\* one simulation tick, e ms after the last: every timer's ttl runs down.  A
\* requested transition is performed before the next tick.
Ticked(e) ==
    [World EXCEPT
        !.timers = [i \in DOMAIN @ |-> Aged(Elapse(@[i], e), e)],
        !.walls = [i \in DOMAIN @ |->
                     IF @[i].state = "hit"
                     THEN [@[i] EXCEPT !.since = Min(@ + e, 2 * hitTTL)]
                     ELSE @[i]]]

Tick(e) ==
    /\ ~AnyDue
    /\ wanted = <<>>
    /\ Commit(Ticked(e), Did("Tick"))

\* the ball ticker fires: onBallTick, gs[id] being what ball id's bounds overlap
\* track: the flight of the balls (angle, position) is followed; where it is
\* not, gs stands for every flight
BallTick(G, track) ==
    /\ DueKind = "ball"
    /\ \E gs \in [{b.id : b \in Range(balls)} -> G] :
          LET e == timers[FirstDue].over
              w == onBallTick(Fired(World), gs, e)
          IN  Commit(IF track THEN w ELSE Untracked(w),
                        [op |-> "BallTick",
                         gs |-> IF track THEN gs ELSE <<>>,
                         elapsed |-> IF track THEN e ELSE 0,
                         grid |-> <<>>,
                         lost |-> {balls[i].id : i \in {j \in DOMAIN balls :
                                     /\ gs[balls[j].id].vert = "bottom"
                                     /\ \A k \in 1..(j - 1) : gs[balls[k].id].vert # "bottom"}},
                         hit |-> UNION {gs[b.id].bricks : b \in Range(balls)},
                         wallsHit |-> UNION {IF gs[b.id].side # "none" \/ gs[b.id].vert = "top"
                                             THEN gs[b.id].walls ELSE {} : b \in Range(balls)},
                         pre |-> Pre])

PaddleTick ==
    /\ DueKind = "paddle"
    /\ Commit(PaddleTickCb(Fired(World), timers[FirstDue].key, timers[FirstDue].over),
              [Did("PaddleTick") EXCEPT !.pre = Pre])

CountdownFire ==
    /\ DueKind = "countdown"
    /\ \E angle \in SpawnAngles : \E x \in SpawnXs :
          Commit(Untracked(CountdownCb(Fired(World), FirstDue, angle, x)), Did("CountdownFire"))

WallRevert ==
    /\ DueKind = "wall"
    /\ Commit(WallRevertCb(Fired(World), timers[FirstDue].wall),
              [Did("WallRevert") EXCEPT !.pre = Pre])

LevelAdvance ==
    /\ DueKind = "level"
    /\ Commit(LevelAdvanceCb(Fired(World)), [Did("LevelAdvance") EXCEPT !.pre = Pre])

\* the state manager performs the oldest request
Transition ==
    /\ ~AnyDue
    /\ wanted # <<>>
    /\ Commit(onStateWanted(World),
              [Did(IF Head(wanted).state = current THEN "Dropped" ELSE "Transition")
                  EXCEPT !.pre = Pre])

\* input is delivered between ticks; a state's listener is called when it is
\* registered
InputAllowed ==
    /\ ~AnyDue
    /\ listening \cap {"title", "gameover", "win"} # {} => Len(wanted) < MaxWanted
    /\ "title" \in listening => plays < MaxPlays

KeyDown(k) ==
    /\ InputAllowed
    /\ LET w0 == [World EXCEPT !.pressed = @ \cup ({k} \cap Arrows)]
           w1 == IF "title" \in w0.listening THEN TitleOnInput(w0) ELSE w0
           w2 == IF "play" \in w1.listening THEN onKeyEvt(w1, "key.down", k) ELSE w1
           w3 == IF "gameover" \in w2.listening THEN GameOverOnInput(w2) ELSE w2
           w4 == IF "win" \in w3.listening THEN WinOnInput(w3) ELSE w3
       IN  Commit(w4, [Did("KeyDown") EXCEPT !.pre = Pre])

KeyUp(k) ==
    /\ ~AnyDue
    /\ LET w0 == [World EXCEPT !.pressed = @ \ {k}]
       IN  Commit(IF "play" \in w0.listening THEN onKeyEvt(w0, "key.up", k) ELSE w0,
                  Did("KeyUp"))

Click ==
    /\ InputAllowed
    /\ LET w1 == IF "title" \in listening THEN TitleOnInput(World) ELSE World
           w3 == IF "gameover" \in w1.listening THEN GameOverOnInput(w1) ELSE w1
           w4 == IF "win" \in w3.listening THEN WinOnInput(w3) ELSE w3
       IN  Commit(w4, [Did("Click") EXCEPT !.pre = Pre])

MouseMove(over, x) ==
    /\ ~AnyDue
    /\ Commit(IF "play" \in listening THEN onMouseEvt(World, over, x) ELSE World,
              Did("MouseMove"))

\* The game: every collision a ball tick can meet, keys other than the arrows,
\* clicks.
Next ==
    \/ \E e \in Elapsed : Tick(e)
    \/ BallTick(Geoms, FALSE)
    \/ CountdownFire
    \/ WallRevert
    \/ LevelAdvance
    \/ Transition
    \/ KeyDown("Space")
    \/ Click

Spec == Init /\ [][Next]_vars

\* The paddle: arrow keys and mouse moves, with balls in free flight.
NextPaddle ==
    \/ \E e \in Elapsed : Tick(e)
    \/ BallTick(GeomFree, FALSE)
    \/ PaddleTick
    \/ CountdownFire
    \/ Transition
    \/ \E k \in Arrows : KeyDown(k)
    \/ \E k \in Arrows : KeyUp(k)
    \/ \E x \in MouseXs : \E over \in BOOLEAN : MouseMove(over, x)

SpecPaddle == Init /\ [][NextPaddle]_vars

\* The arrow keys through whole games: balls in free flight, at a side wall or
\* at the bottom edge.
GeomsKeys ==
    GeomFree \cup {Geom("none", "left", "none", DOMAIN walls, {}),
                   Geom("none", "none", "bottom", {}, {})}

NextKeys ==
    \/ \E e \in Elapsed : Tick(e)
    \/ BallTick(GeomsKeys, FALSE)
    \/ PaddleTick
    \/ CountdownFire
    \/ WallRevert
    \/ Transition
    \/ \E k \in Arrows : KeyDown(k)
    \/ \E k \in Arrows : KeyUp(k)

SpecKeys == Init /\ [][NextKeys]_vars

\* ---------------------------------------------------- one tick of flight
\* the variables hold the world w
Is(w) ==
    /\ current = w.current
    /\ listening = w.listening
    /\ wanted = w.wanted
    /\ payload = w.payload
    /\ score = w.score
    /\ lives = w.lives
    /\ level = w.level
    /\ gameover = w.gameover
    /\ balls = w.balls
    /\ bricks = w.bricks
    /\ walls = w.walls
    /\ paddleTicker = w.paddleTicker
    /\ value = w.value
    /\ paddleX = w.paddleX
    /\ pressed = w.pressed
    /\ timers = w.timers
    /\ ballsSpawned = w.ballsSpawned
    /\ destroyed = w.destroyed
    /\ plays = w.plays
    /\ calls = w.calls

\* Play as prepared from Title
PlayWorld == onStateWanted(TitleOnInput(onStateWanted(InitWorld)))

\* a session at level lv with the balls bs in flight, the countdown over
InFlight(lv, bs) ==
    LET w == spawnLevel([PlayWorld EXCEPT !.bricks = <<>>], lv)
    IN  [w EXCEPT !.timers = SelectSeq(@, LAMBDA t : t.kind # "countdown"),
                  !.balls = bs,
                  !.ballsSpawned = Len(bs),
                  !.destroyed = [i \in 1..Len(bs) |-> 0]]

\* A game played to the end with every brick of every level: the ball in free
\* flight, at the first brick of this.bricks, at the first two when they are
\* neighbours, or at the bottom edge.
InitWin ==
    /\ Is(spawnLevelAll([PlayWorld EXCEPT !.bricks = <<>>], 0))
    /\ last = Did("Init")

GeomsWin ==
    GeomFree
    \cup {Geom("none", "none", "none", {}, {bricks[i].cell : i \in 1..n}) :
              n \in {m \in {1, 2} : m <= Len(bricks) /\ Adjacent({bricks[i].cell : i \in 1..m})}}
    \cup {Geom("none", "none", "bottom", {}, {})}

LevelAdvanceAll ==
    /\ DueKind = "level"
    /\ Commit(LevelAdvanceCbAll(Fired(World)), [Did("LevelAdvance") EXCEPT !.pre = Pre])

NextWin ==
    \/ \E e \in Elapsed : Tick(e)
    \/ BallTick(GeomsWin, FALSE)
    \/ CountdownFire
    \/ LevelAdvanceAll
    \/ Transition

SpecWin == InitWin /\ [][NextWin]_vars

\* the angles a ball is drawn with: angles that spawnBall and the resolution of
\* a collision leave, among them those the paddle reflects into the bands
FlightAngles == {10, 65, 70, 75, 90, 105, 110, 115, 170, 190, 270, 290, 350}
FlightXs == {240}
FlightYs == {300, 500}
\* ball id in flight
Flying(id, a, x, y, c) == [Ball(id, a, x * Pixel, y * Pixel) EXCEPT !.colliding = c]

\* one ball with any of the angles, or two balls
InitBall ==
    /\ \E lv \in {0, 1} :
          \/ \E a \in FlightAngles : \E x \in FlightXs : \E y \in FlightYs : \E c \in BOOLEAN :
                Is(InFlight(lv, <<Flying(1, a, x, y, c)>>))
          \/ \E a \in {90, 270} : \E b \in {65, 290} : \E x \in FlightXs : \E y \in FlightYs :
                Is(InFlight(lv, <<Flying(1, a, x, y, FALSE), Flying(2, b, x, y, FALSE)>>))
    /\ last = Did("Init")

\* the places on the paddle a ball is reflected at, by the tilt they give
\* (1.3 pi to 1.7 pi)
Tilts == {235, 250, 270, 290, 305}

\* what the bounds of a ball in flight can overlap, the bounds being what the
\* tests of onBallTick are given: the bricks with either shape of intersection,
\* alone or at an edge; the paddle; the walls
GeomsFlight ==
    LET cells == {b.cell : b \in Range(bricks)}
        hits == {[Geom("none", "none", v, {}, S) EXCEPT !.wide = W] :
                    v \in {"none", "top", "bottom"},
                    S \in {T \in SUBSET cells : Adjacent(T)} \ {{}},
                    W \in SUBSET cells}
        few == {Geom("none", "none", v, {}, S) :
                    v \in {"none", "top", "bottom"},
                    S \in {{}} \cup {{bricks[i].cell} : i \in DOMAIN bricks \cap {1}}}
    IN  IF Len(balls) > 1 THEN few
        ELSE {g \in hits : g.wide \subseteq g.bricks}
             \cup {[Geom("top", s, "none", {}, {}) EXCEPT !.tilt = t] :
                      s \in {"none", "left"}, t \in Tilts}
             \cup {Geom(p, s, "none", {}, {}) : p \in {"edge", "touch"}, s \in {"none", "left"}}
             \cup {Geom("none", s, v, ws, {}) : s \in {"none", "left", "right"},
                      v \in {"none", "top", "bottom"}, ws \in SUBSET DOMAIN walls}

\* a session with balls in flight, one tick and the ball tick it brings
NextBall ==
    \/ last.op = "Init" /\ \E e \in Elapsed : Tick(e)
    \/ BallTick(GeomsFlight, TRUE)

SpecBall == InitBall /\ [][NextBall]_vars

\* ------------------------------------------------- the angles of a session
\* Random.range(0.35 pi, 0.65 pi), in whole degrees
SpawnAnglesAll == 63..117
\* the tilt of the paddle at the middle of the intersection: 1.3 pi at its
\* left end to 1.7 pi at its right end, in whole degrees
TiltsAll == 234..306

\* what a ball's bounds can collide with, bricks apart: the paddle's top at any
\* place, its edge, the side walls and the top edge
GeomsAngle ==
    {[Geom("top", s, "none", {}, {}) EXCEPT !.tilt = t] : s \in {"none", "left"}, t \in TiltsAll}
    \cup {Geom("edge", s, "none", {}, {}) : s \in {"none", "right"}}
    \cup {Geom("none", s, v, {}, {}) : s \in {"left", "right"}, v \in {"none", "top"}}
    \cup {Geom("none", "none", "top", {}, {})}

\* the third firing of the countdown spawns the ball at any of the angles
CountdownFireAt ==
    /\ DueKind = "countdown"
    /\ \E angle \in SpawnAnglesAll : \E x \in SpawnXs :
          Commit(CountdownCb(Fired(World), FirstDue, angle, x), Did("CountdownFire"))

\* a session from its start, the ball meeting something at every tick once it
\* is spawned
NextAngle ==
    \/ \E e \in Elapsed : Tick(e)
    \/ CountdownFireAt
    \/ BallTick(IF \E i \in DOMAIN balls : balls[i].colliding
                THEN {g \in GeomsAngle : g.paddle = "none"} ELSE GeomsAngle, TRUE)

SpecAngle == Is(PlayWorld) /\ last = Did("Init") /\ [][NextAngle]_vars

\* ----------------------------------------------------- reflections in turn
\* a session with one ball in flight at any whole angle of 0 up to 360
InitFlip ==
    /\ \E a \in 0..359 : Is(InFlight(0, <<Flying(1, a, 240, 300, FALSE)>>))
    /\ last = Did("Init")

\* the ball's bounds at a side wall, and at the top edge
GeomsFlip == {Geom("none", "left", "none", {}, {}), Geom("none", "none", "top", {}, {})}

\* the next tick; trail keeps the reflections made so far
TickFlip ==
    /\ ~AnyDue
    /\ wanted = <<>>
    /\ Len(last.trail) < 2
    /\ \E e \in Elapsed : Commit(Ticked(e), [Did("Tick") EXCEPT !.trail = last.trail])

\* the ball ticker fires with the ball at a wall: trail records the wall, the
\* angle before and the angle after
BallTickFlip ==
    /\ DueKind = "ball"
    /\ balls # <<>>
    /\ \E g \in GeomsFlip :
          LET w == onBallTick(Fired(World), [id \in {balls[1].id} |-> g], timers[FirstDue].over)
          IN  Commit(w, [Did("BallTick") EXCEPT
                            !.pre = Pre,
                            !.trail = Append(last.trail,
                                             [axis |-> IF g.vert = "top" THEN "vertical" ELSE "horizontal",
                                              from |-> balls[1].angle,
                                              to |-> w.balls[1].angle])])

NextFlip == TickFlip \/ BallTickFlip

SpecFlip == InitFlip /\ [][NextFlip]_vars

\* ------------------------------------------------------------ level load
\* the cells of a grid that are changed, and the values they are given
GridCells == {0, 1, 8, 9, 45, 49, 90, 98}
CellValues == {-1, 0, 1, 2, 3, 4}
GridLengths == {0, 1, 50, 98}

\* the grids spawnLevel is given: the levels, the levels with one cell changed,
\* cut short, and with a cell too many
Grids ==
    LET ls == Range(levels)
    IN  ls \cup {[g EXCEPT ![k + 1] = v] : g \in ls, k \in GridCells, v \in CellValues}
           \cup {SubSeq(g, 1, n) : g \in ls, n \in GridLengths}
           \cup {Append(g, v) : g \in ls, v \in {0, 2}}

\* Play as prepared, no level loaded yet, and the grid that is to be loaded
InitLevel ==
    /\ Is([PlayWorld EXCEPT !.bricks = <<>>])
    /\ \E g \in Grids : last = [Did("Init") EXCEPT !.grid = g]

\* spawnLevel(idx), the levels holding the grid at idx
SpawnLevel ==
    /\ last.op = "Init"
    /\ \E idx \in 0..(Len(levels) - 1) : \E throws \in BOOLEAN :
          LET r == SpawnCols([w |-> [World EXCEPT !.level = idx], error |-> FALSE],
                             last.grid, 0, maxCols * maxRows, throws)
          IN  Commit(r.w, [Did("spawnLevel") EXCEPT !.grid = last.grid, !.error = r.error])

SpecLevel == InitLevel /\ [][SpawnLevel]_vars

\* ------------------------------------------------------------------ claims
Request(tag, data) == [state |-> tag, score |-> data]
\* the step made a request for tag
Requests(tag) == Len(wanted') > Len(wanted) /\ wanted'[Len(wanted')].state = tag

AllowedTransitions ==
    {<<"none", "title">>, <<"title", "play">>, <<"play", "gameover">>,
     <<"play", "win">>, <<"gameover", "title">>, <<"win", "title">>}

\* C1: the first state started is Title; the started state changes only along
\* Title->Play, Play->GameOver, Play->Win, GameOver->Title, Win->Title, and Play
\* is prepared only on the way from Title; a key-down or click delivered in Title
\* requests Play, one delivered in GameOver or Win requests Title.
C1_StateMachine ==
    /\ [](current = "none" => wanted # <<>> /\ Head(wanted).state = "title")
    /\ [][/\ current' # current => <<current, current'>> \in AllowedTransitions
          /\ plays' # plays => current = "title" /\ current' = "play"
          /\ last'.op \in {"KeyDown", "Click"} /\ current = "title"
                => wanted' = Append(wanted, Request("play", 0))
          /\ last'.op \in {"KeyDown", "Click"} /\ current \in {"gameover", "win"}
                => wanted' = Append(wanted, Request("title", 0))]_vars

\* Title has been started again from Win, after a game played from Title
C1_Witness ==
    /\ current = "title"
    /\ last.op = "Transition"
    /\ last.pre.current = "win"

\* C2: a step requests GameOver exactly when it is a ball tick in which a ball is
\* lost, no ball remains and lives goes from 1 to 0; the request, and the
\* GameOver state when started, carry the session's score; no request for
\* GameOver is pending while lives > 0.
C2_GameOver ==
    /\ [](\A i \in DOMAIN wanted : wanted[i].state = "gameover" =>
              lives = 0 /\ gameover /\ wanted[i].score = score)
    /\ [](current = "gameover" => payload = score /\ lives = 0)
    /\ [][/\ Requests("gameover") <=>
                (/\ last'.op = "BallTick" /\ last'.lost # {}
                 /\ balls # <<>> /\ balls' = <<>> /\ lives' = 0)
          /\ Requests("gameover") =>
                (/\ lives = 1
                 /\ score' = score
                 /\ wanted' = Append(wanted, Request("gameover", score)))
          /\ current' = "gameover" /\ current # "gameover"
                => current = "play" /\ payload' = score /\ lives = 0]_vars

\* GameOver is started with the score of a session in which bricks were destroyed
C2_Witness ==
    /\ current = "gameover"
    /\ last.op = "Transition"
    /\ last.pre.current = "play"
    /\ payload = 300
    /\ lives = 0

NumTimers(ts, kind) == Cardinality({i \in DOMAIN ts : ts[i].kind = kind})

\* ts holds one countdown more than before, the last timer created: three ticks
\* to go, 1000 ms to the first
CountdownStarted(before, ts) ==
    /\ NumTimers(ts, "countdown") = NumTimers(before, "countdown") + 1
    /\ ts # <<>>
    /\ LET t == ts[Len(ts)]
       IN  t.kind = "countdown" /\ t.tick = 3 /\ t.ttl = 1000 /\ t.loop /\ ~t.due

InitialHits(lv, cell) == levels[lv + 1][cell[1] + cell[2] * maxCols + 1]
LevelCells(lv) ==
    {c \in (0..(maxCols - 1)) \X (0..(maxRows - 1)) : InitialHits(lv, c) # 0}

\* bs are bricks of level lv as spawned: one per cell, each a non-zero cell of
\* the grid with the cell's value as hits and 100 times it as score
LevelSpawned(bs, lv) ==
    /\ Len(bs) = Min(MaxBricks, Cardinality(LevelCells(lv)))
    /\ \A i \in DOMAIN bs :
          /\ bs[i].cell \in LevelCells(lv)
          /\ bs[i].hits = InitialHits(lv, bs[i].cell)
          /\ bs[i].score = 100 * InitialHits(lv, bs[i].cell)
          /\ \A j \in DOMAIN bs : bs[j].cell = bs[i].cell => j = i

\* the step destroys the last brick of the level
LastBrick == bricks # <<>> /\ bricks' = <<>> /\ plays' = plays

\* C3: when a step destroys the last brick of a level that is not the last, no
\* Win is requested and the level stays until the one-shot (0 ms) timer the step
\* creates fires; when that fires, level goes up by one, the next level's bricks
\* are spawned and one countdown starts.  When the level is the last, the step
\* requests Win with the score, the last brick's included.  Win is requested by
\* no other step, and level changes in no other step of a session.
C3_LevelComplete ==
    /\ [](\A i \in DOMAIN timers : timers[i].kind = "level" =>
              timers[i].ttl = 0 /\ bricks = <<>> /\ balls = <<>> /\ level + 1 < Len(levels))
    /\ [](bricks = <<>> /\ current = "play" /\ level + 1 < Len(levels)
              => NumTimers(timers, "level") = 1)
    /\ [](current = "win" => payload = score)
    /\ [][/\ LastBrick /\ level + 1 < Len(levels) =>
                /\ wanted' = wanted
                /\ level' = level
                /\ NumTimers(timers', "level") = 1
          /\ LastBrick /\ level + 1 >= Len(levels) =>
                /\ score' > score
                /\ wanted' = Append(wanted, Request("win", score'))
                /\ NumTimers(timers', "level") = 0
          /\ Requests("win") => LastBrick /\ level = Len(levels) - 1
          /\ last'.op = "LevelAdvance" =>
                /\ bricks = <<>>
                /\ level' = level + 1
                /\ LevelSpawned(bricks', level')
                /\ CountdownStarted(timers, timers')
                /\ wanted' = wanted
          /\ level' # level /\ plays' = plays => last'.op = "LevelAdvance"
          /\ current' = "win" /\ current # "win" => payload' = score]_vars

\* the last brick of the last level has just been destroyed, two levels after
\* the first: Win is requested with the score
C3_Witness ==
    /\ last.op = "BallTick"
    /\ level = Len(levels) - 1
    /\ last.pre.bricks # <<>>
    /\ bricks = <<>>
    /\ wanted = <<Request("win", score)>>
    /\ score > 0

\* the step loses the last ball with lives to spare
LosesBall == last'.op = "BallTick" /\ last'.lost # {} /\ balls # <<>> /\ balls' = <<>> /\ lives > 1

\* C4: when a ball tick loses the last ball and lives was above 1, lives goes
\* down by exactly one, nothing is requested of the state manager, the session
\* is not marked over and one countdown starts; with ticks and timers that keep
\* running, a ball is spawned again.
C4_LifeLost ==
    /\ [][LosesBall =>
            /\ lives' = lives - 1
            /\ wanted' = wanted
            /\ ~gameover'
            /\ CountdownStarted(timers, timers')]_vars
    /\ (last.op = "BallTick" /\ last.lost # {} /\ balls = <<>> /\ lives > 0) ~> (balls # <<>>)

\* the second ball is in play after the first was lost
C4_Witness ==
    /\ last.op = "CountdownFire"
    /\ ballsSpawned = 2
    /\ Len(balls) = 1
    /\ lives = startLives - 1
    /\ level = 0

C6_SessionReset ==
    last.op = "Transition" /\ current = "play" =>
        /\ score = 0
        /\ lives = startLives
        /\ level = 0
        /\ ~gameover
        /\ balls = <<>>
        /\ ballsSpawned = 0
        /\ Len(walls) = MaxWalls
        /\ \A i \in DOMAIN walls : walls[i].state = "idle"
        /\ LevelSpawned(bricks, 0)
        /\ NumTimers(timers, "countdown") = 1
        /\ NumTimers(timers, "ball") = 1
        /\ \A i \in DOMAIN timers :
              /\ timers[i].kind = "countdown" => timers[i].tick = 3 /\ timers[i].ttl = 1000
              /\ timers[i].kind = "ball" => timers[i].ttl = 0 /\ timers[i].loop /\ timers[i].held

\* Play has been prepared a second time, after a session that ended with a
\* score and no lives
C6_Witness ==
    /\ last.op = "Transition"
    /\ current = "play"
    /\ plays = 2
    /\ last.pre.score > 0
    /\ last.pre.lives = 0

Ids(bs) == {bs[i].id : i \in DOMAIN bs}

\* C7: a ball is destroyed at most once; the balls of the active set are not
\* destroyed, so that a tick, which processes the balls of the active set,
\* processes no ball that was lost; and after the tick in which a ball's
\* bottom-edge check fired, the ball is out of the active set and destroyed once.
C7_LostBall ==
    /\ \A id \in DOMAIN destroyed : destroyed[id] <= 1
    /\ \A id \in Ids(balls) : id \in DOMAIN destroyed /\ destroyed[id] = 0
    /\ last.op = "BallTick" =>
          /\ last.lost \subseteq Ids(last.pre.balls)
          /\ \A id \in last.lost : id \notin Ids(balls) /\ destroyed[id] = 1

\* a tick has processed the second ball after the first was lost
C7_Witness ==
    /\ last.op = "BallTick"
    /\ last.lost = {}
    /\ Ids(last.pre.balls) = {2}
    /\ Ids(balls) = {2}
    /\ destroyed[1] = 1
    /\ lives = startLives - 1

Cells(bs) == {bs[i].cell : i \in DOMAIN bs}

RECURSIVE ScoreOf(_, _)
\* the score of the bricks at the cells S of level lv: 100 for each initial hit
ScoreOf(S, lv) ==
    IF S = {} THEN 0
    ELSE LET c == CHOOSE x \in S : TRUE
         IN  100 * InitialHits(lv, c) + ScoreOf(S \ {c}, lv)

\* C8: in a ball tick, a brick that is not hit stays as it is; a brick that is
\* hit with more than one hit left stays with one hit less, and one that is hit
\* with one hit left is removed (a brick that follows a removed one in the set
\* may miss its hit).  The score goes up by 100 times the initial hits of the
\* bricks removed, and by nothing else; between sessions' starts, only a ball
\* tick changes the score.  A brick has between 1 and its initial hits left.
C8_BrickHit ==
    /\ [](\A i \in DOMAIN bricks :
            /\ bricks[i].hits \in 1..InitialHits(level, bricks[i].cell)
            /\ bricks[i].score = 100 * InitialHits(level, bricks[i].cell))
    /\ [][/\ last'.op = "BallTick" /\ last' # last =>
                /\ \A i \in DOMAIN bricks :
                      LET b == bricks[i]
                          left == {j \in DOMAIN bricks' : bricks'[j].cell = b.cell}
                      IN  /\ b.cell \notin last'.hit =>
                             \E j \in left : bricks'[j] = b
                          /\ b.cell \in last'.hit =>
                                \/ b.hits > 1 /\ \E j \in left : bricks'[j] = [b EXCEPT !.hits = b.hits - 1]
                                \/ b.hits = 1 /\ left = {}
                                \/ /\ \E j \in left : bricks'[j] = b
                                   /\ \E k \in 1..(i - 1) : bricks[k].cell \notin Cells(bricks')
                          /\ last'.hit = {b.cell} => \A j \in left : bricks'[j] # b
                /\ Cells(bricks') \subseteq Cells(bricks)
                /\ score' = score + ScoreOf(Cells(bricks) \ Cells(bricks'), level)
          /\ score' # score => last'.op = "BallTick" \/ plays' # plays]_vars

\* a brick of two hits has been hit twice: the second hit removed it and added
\* 200 to the score
C8_Witness ==
    /\ last.op = "BallTick"
    /\ \E i \in DOMAIN last.pre.bricks :
          LET b == last.pre.bricks[i]
          IN  /\ InitialHits(level, b.cell) = 2
              /\ b.hits = 1
              /\ last.hit = {b.cell}
              /\ b.cell \notin Cells(bricks)
              /\ bricks # <<>>
    /\ score = last.pre.score + 200

\* the revert timers of wall i among the timers ts
WallTimersOf(ts, i) == {j \in DOMAIN ts : ts[j].kind = "wall" /\ ts[j].wall = i}
WallTimers(i) == WallTimersOf(timers, i)

\* an idle wall has no revert timer pending and a wall in state hit has one,
\* which runs out 300 ms after the hit that took the wall out of idle
OneRevertTimer ==
    \A i \in DOMAIN walls :
        /\ walls[i].state = "idle" => WallTimers(i) = {}
        /\ walls[i].state = "hit" =>
              /\ Cardinality(WallTimers(i)) = 1
              /\ \A j \in WallTimers(i) :
                    IF timers[j].due
                    THEN walls[i].since >= hitTTL
                    ELSE walls[i].since < hitTTL /\ timers[j].ttl = hitTTL - walls[i].since

\* a hit takes an idle wall to state hit and leaves a wall in state hit as it is
HitOnce ==
    \A i \in DOMAIN walls :
        /\ walls[i].state = "idle" /\ i \in DOMAIN walls' /\ walls'[i].state = "hit" =>
              last'.op = "BallTick" /\ i \in last'.wallsHit /\ walls'[i].since = 0
        /\ last'.op = "BallTick" /\ last' # last /\ i \in last'.wallsHit =>
              /\ walls'[i].state = "hit"
              /\ walls[i].state = "hit" =>
                    /\ walls'[i] = walls[i]
                    /\ Cardinality(WallTimersOf(timers', i)) = Cardinality(WallTimers(i))

\* wall i of the session goes back to idle in this step
Reverts(i) ==
    /\ plays' = plays
    /\ i \in DOMAIN walls'
    /\ walls[i].state = "hit"
    /\ walls'[i].state = "idle"

\* C9, as stated: a wall in state hit goes back to idle exactly 300 ms after the
\* hit that took it out of idle; hits in state hit create no timer and extend
\* nothing; one revert timer per wall at most.
C9_Exact ==
    /\ []OneRevertTimer
    /\ [][/\ HitOnce
          /\ \A i \in DOMAIN walls : Reverts(i) => walls[i].since = hitTTL]_vars

\* C9: a wall in state hit goes back to idle at the first tick that ends 300 ms
\* or more after the hit that took it out of idle, which is 300 ms after it only
\* when a tick ends then; hits in state hit create no timer and extend nothing;
\* one revert timer per wall at most.
C9_WallCooldown ==
    /\ []OneRevertTimer
    /\ [][/\ HitOnce
          /\ \A i \in DOMAIN walls : Reverts(i) =>
                /\ last'.op = "WallRevert"
                /\ walls[i].since >= hitTTL
                /\ \E e \in Elapsed : walls[i].since - e < hitTTL]_vars

\* a wall has gone back to idle 400 ms after the hit that took it out of idle
C9_Witness ==
    /\ last.op = "WallRevert"
    /\ last.pre.walls[1].state = "hit"
    /\ last.pre.walls[1].since = hitTTL + 100
    /\ walls[1].state = "idle"
    /\ current = "play"

\* C10: value is between 0 and 1 (0 and 1000 thousandths); a tick of the paddle
\* ticker stores value -/+ paddleSpeed x elapsed, 0 when that is below 0 and 1
\* when it is above 1.
C10_PaddleValue ==
    /\ [](value \in 0..1000)
    /\ [][last'.op = "PaddleTick" /\ last' # last =>
            \E e \in Elapsed : \E dir \in {-1, 1} :
                LET v == value + dir * paddleSpeed * e
                IN  value' = IF v < 0 THEN 0 ELSE IF v > 1000 THEN 1000 ELSE v]_vars

\* the paddle at 0.05 has been moved left for 100 ms or more: value is 0
C10_Witness ==
    /\ last.op = "PaddleTick"
    /\ last.pre.value = 50
    /\ value = 0

\* What the game loop does next: the next tick, the callback of the timer that
\* is due, or the transition that was requested
Scheduled ==
    \/ \E e \in Elapsed : Tick(e)
    \/ BallTick(Geoms, FALSE)
    \/ CountdownFire
    \/ WallRevert
    \/ LevelAdvance
    \/ Transition

\* The game with a loop that keeps running: input cannot hold back what is
\* scheduled for ever.
FairSpec == Spec /\ WF_vars(Scheduled)


\* ------------------------------------------------ claims on a tick of flight
\* the ball tick that has just run: the balls as they were, what ball i of them
\* overlapped
Was(i) == last.pre.balls[i]
Over(i) == last.gs[Was(i).id]
\* ball i was at the bottom edge
AtBottom(i) == Over(i).vert = "bottom"
\* the tick reached ball i: no ball before it was at the bottom edge
Reached(i) == \A k \in 1..(i - 1) : ~AtBottom(k)
\* the bricks ball i overlapped that no ball before it overlapped
OwnBricks(i) == Over(i).bricks \ UNION {Over(k).bricks : k \in 1..(i - 1)}
\* ball i collided: with the paddle it was not colliding with, a side, the top
\* or a brick
Collided(i) ==
    \/ Over(i).paddle # "none" /\ ~Was(i).colliding
    \/ Over(i).side # "none"
    \/ Over(i).vert = "top"
    \/ OwnBricks(i) # {}
\* ball i overlapped nothing it could collide with
Free(i) ==
    /\ Over(i).paddle = "none" \/ Was(i).colliding
    /\ Over(i).side = "none"
    /\ Over(i).vert = "none"
    /\ Over(i).bricks = {}
\* ball i as it is now, when this.balls still holds it
Now(i) == {b \in Range(balls) : b.id = Was(i).id}

\* angle a of 0 .. 360 moved out of the bands of 10 around 0, 180 and 360, to
\* the nearest end of the band
Snapped(a) ==
    IF a < 10 THEN 10
    ELSE IF a > 350 THEN 350
    ELSE IF a > 170 /\ a <= 180 THEN 170
    ELSE IF a > 180 /\ a < 190 THEN 190
    ELSE a
\* the angles a collision can ask for: the angle kept, or reflected about the
\* vertical, the horizontal or the tilted paddle
Wanted(i) ==
    {Was(i).angle, 180 - Was(i).angle, 360 - Was(i).angle,
     180 + 2 * Over(i).tilt - Was(i).angle}

\* C11: after a ball tick, a ball that collided in it has an angle of 0 up to
\* 360 that is 10 or more away from 0, 180 and 360, and that is an angle its
\* collision can ask for, brought into 0 up to 360 and moved out of the bands.
C11_AngleResolved ==
    last.op = "BallTick" =>
        \A i \in DOMAIN last.pre.balls :
            Reached(i) /\ ~AtBottom(i) /\ Collided(i) =>
                \A b \in Now(i) :
                    /\ b.angle \in (10..170) \cup (190..350)
                    /\ \E a \in Wanted(i) : b.angle = Snapped(a % 360)

\* the paddle has reflected a ball to 175 degrees, which became 170
C11_Witness ==
    /\ last.op = "BallTick"
    /\ Len(last.pre.balls) = 1
    /\ Was(1).angle = 115
    /\ Over(1).paddle = "top"
    /\ Over(1).tilt = 235
    /\ ~Was(1).colliding
    /\ \E b \in Now(1) : b.angle = 170

\* C12: after a ball tick, a ball that collided in it is where it was; a ball
\* that overlapped nothing has moved by speed x elapsed along its angle, which
\* it has kept.
C12_MoveOrTurn ==
    last.op = "BallTick" =>
        \A i \in DOMAIN last.pre.balls :
            Reached(i) /\ ~AtBottom(i) =>
                \A b \in Now(i) :
                    /\ Collided(i) => b.x = Was(i).x /\ b.y = Was(i).y
                    /\ Free(i) =>
                          /\ b.x = Was(i).x + Cos(Was(i).angle) * ballSpeed * last.elapsed
                          /\ b.y = Was(i).y + Sin(Was(i).angle) * ballSpeed * last.elapsed
                          /\ b.angle = Was(i).angle

\* a ball at 65 degrees has moved right and down in a tick of 200 ms
C12_Witness ==
    /\ last.op = "BallTick"
    /\ last.elapsed = 200
    /\ Len(last.pre.balls) = 1
    /\ Free(1)
    /\ Was(1).angle = 65
    /\ \E b \in Now(1) : b.x > Was(1).x /\ b.y > Was(1).y /\ b.angle = 65

\* C13: after a ball tick in which a ball was at the bottom edge, the ball is
\* out of this.balls and, whatever bricks it overlapped, the bricks that no ball
\* before it overlapped are as they were; the score is as it was when no ball
\* before it overlapped a brick.
C13_LossShortCircuits ==
    last.op = "BallTick" =>
        \A i \in DOMAIN last.pre.balls :
            Reached(i) /\ AtBottom(i) =>
                /\ Now(i) = {}
                /\ last.lost = {Was(i).id}
                /\ \A k \in DOMAIN last.pre.bricks :
                      last.pre.bricks[k].cell \in OwnBricks(i) =>
                          last.pre.bricks[k] \in Range(bricks)
                /\ (\A k \in 1..(i - 1) : Over(k).bricks = {}) => score = last.pre.score

\* a ball at the bottom edge overlapped a brick with its bounds, and was lost
C13_Witness ==
    /\ last.op = "BallTick"
    /\ Len(last.pre.balls) = 1
    /\ AtBottom(1)
    /\ Over(1).bricks # {}
    /\ bricks = last.pre.bricks
    /\ lives = last.pre.lives - 1

Countdowns == {i \in DOMAIN timers : timers[i].kind = "countdown"}

\* C14: a countdown fires three times and is gone: it has fired fewer than
\* three times while it is scheduled; its next firing, the k-th, is due at the
\* first tick that ends k x 1000 ms or more after its creation; the first two
\* firings spawn nothing and leave it scheduled, the third spawns one ball and
\* unschedules it; a ball is spawned by nothing else.
C14_Countdown ==
    /\ [](\A i \in Countdowns :
            LET t == timers[i]
                next == (t.fired + 1) * countdownTTL
            IN  /\ t.fired \in 0..2
                /\ IF t.due
                   THEN t.age >= next /\ \E e \in Elapsed : t.age - e < next
                   ELSE t.age < next /\ t.ttl = next - t.age)
    /\ [][/\ last'.op = "CountdownFire" /\ last' # last =>
                \E i \in Countdowns :
                    /\ timers[i].due
                    /\ \A j \in Countdowns : timers[j].due => j = i
                    /\ IF timers[i].fired < 2
                       THEN /\ balls' = balls
                            /\ ballsSpawned' = ballsSpawned
                            /\ NumTimers(timers', "countdown") = NumTimers(timers, "countdown")
                            /\ \E j \in DOMAIN timers' :
                                  /\ timers'[j].kind = "countdown"
                                  /\ timers'[j].fired = timers[i].fired + 1
                                  /\ timers'[j].age = timers[i].age
                       ELSE /\ Len(balls') = Len(balls) + 1
                            /\ ballsSpawned' = ballsSpawned + 1
                            /\ NumTimers(timers', "countdown") = NumTimers(timers, "countdown") - 1
          /\ ballsSpawned' > ballsSpawned => last'.op = "CountdownFire"]_vars

\* a countdown of a later round has fired for the third time: its ball is in
\* play and no countdown is scheduled
C14_Witness ==
    /\ last.op = "CountdownFire"
    /\ Len(balls) = 1
    /\ Countdowns = {}
    /\ current = "play"
    /\ score > 0

\* a grid as the levels are written: one cell for each place of the 9 x 11
\* brick area, each 0 to 3
WellFormed(grid) ==
    Len(grid) = maxCols * maxRows /\ \A k \in DOMAIN grid : grid[k] \in 0..3

Places == (0..(maxCols - 1)) \X (0..(maxRows - 1))
GridAt(grid, c) == grid[c[1] + c[2] * maxCols + 1]

\* C15: spawnLevel of a well-formed grid leaves exactly one brick for every
\* non-zero cell (the cell of column col and row row at index col + row x 9)
\* and none for a zero cell; the brick's hits are the cell's value and its
\* score is 100 times the value.
C15_SpawnLevel ==
    last.op = "spawnLevel" /\ WellFormed(last.grid) =>
        /\ ~last.error
        /\ \A c \in Places :
              Cardinality({k \in DOMAIN bricks : bricks[k].cell = c})
                  = IF GridAt(last.grid, c) # 0 THEN 1 ELSE 0
        /\ \A k \in DOMAIN bricks :
              /\ bricks[k].cell \in Places
              /\ bricks[k].hits = GridAt(last.grid, bricks[k].cell)
              /\ bricks[k].score = GridAt(last.grid, bricks[k].cell) * 100

\* the third level has been spawned: 31 bricks, bricks of three hits among them
C15_Witness ==
    /\ last.op = "spawnLevel"
    /\ last.grid = levels[3]
    /\ level = 2
    /\ Len(bricks) = 31
    /\ \E k \in DOMAIN bricks : bricks[k].hits = 3 /\ bricks[k].score = 300

\* C18: spawnLevel of a malformed grid (a length other than 99, or a cell
\* outside 0..3) reports an error and spawns no brick at all.
C18_FailFast ==
    last.op = "spawnLevel" /\ ~WellFormed(last.grid) =>
        last.error /\ bricks = <<>>

\* the first level, its last cell missing, has been loaded: no error, and the
\* ten bricks of the cells that are there
C18_Witness ==
    /\ last.op = "spawnLevel"
    /\ last.grid = SubSeq(levels[1], 1, 98)
    /\ ~last.error
    /\ Len(bricks) = 10

\* the bricks a session has for level lv, as spawned
LevelBricks(lv) == Range(spawnLevel([PlayWorld EXCEPT !.bricks = <<>>], lv).bricks)

RECURSIVE SumScores(_)
SumScores(S) ==
    IF S = {} THEN 0
    ELSE LET b == CHOOSE x \in S : TRUE IN b.score + SumScores(S \ {b})

\* the bricks of bs, an earlier value of this.bricks, that are gone from cs
Gone(bs, cs) == {b \in bs : \A k \in DOMAIN cs : cs[k].cell # b.cell}

RECURSIVE ScoreOfLevels(_)
ScoreOfLevels(n) == IF n = 0 THEN 0 ELSE SumScores(LevelBricks(n - 1)) + ScoreOfLevels(n - 1)

\* C16: in a Play session the score is the sum of the scores of the bricks
\* destroyed so far in the session (those of the levels completed and those
\* of the current level that are gone); a step of the session never lowers
\* it, and changes it only by destroying bricks, by the sum of their scores.
C16_Score ==
    /\ [](current = "play" =>
            score = ScoreOfLevels(level) + SumScores(Gone(LevelBricks(level), bricks)))
    /\ [][current = "play" /\ current' = "play" /\ plays' = plays =>
            /\ score' >= score
            /\ score' # score =>
                  /\ last'.op = "BallTick"
                  /\ Gone(Range(bricks), bricks') # {}
            /\ score' - score = SumScores(Gone(Range(bricks), bricks'))]_vars

\* the second level is being played: a brick of it is gone, after all the
\* bricks of the first level
C16_Witness ==
    /\ current = "play"
    /\ level = 1
    /\ score = 500
    /\ Len(bricks) = MaxBricks - 1

\* C17: lives are within 0..3 and every active brick has at least one hit
\* left; a step that lowers the lives lowers them by one, from above 0, with a
\* ball lost in it.
C17_NeverNegative ==
    /\ [](/\ lives \in 0..startLives
          /\ \A k \in DOMAIN bricks : bricks[k].hits >= 1)
    /\ [][lives' < lives =>
            /\ lives > 0
            /\ lives' = lives - 1
            /\ last'.op = "BallTick"
            /\ last'.lost # {}]_vars

\* the last life has just been lost in the second level, where a brick of two
\* hits is left with one
C17_Witness ==
    /\ lives = 0
    /\ gameover
    /\ last.op = "BallTick"
    /\ last.lost # {}
    /\ \E k \in DOMAIN bricks :
          bricks[k].hits = 1 /\ InitialHits(level, bricks[k].cell) = 2

\* a ball before ball i was at the bottom edge in the tick
AfterLoss(i) == \E k \in 1..(i - 1) : AtBottom(k)

Struck(i) == {b \in Range(last.pre.bricks) : b.cell \in Over(i).bricks}
\* the place in the list of the last of them
LastStruck(i) ==
    CHOOSE k \in DOMAIN last.pre.bricks :
        /\ last.pre.bricks[k] \in Struck(i)
        /\ \A j \in DOMAIN last.pre.bricks : last.pre.bricks[j] \in Struck(i) => j <= k
\* the reflection a brick asks for
Reflected(i, cell) ==
    IF cell \in Over(i).wide THEN 360 - Was(i).angle ELSE 180 - Was(i).angle

\* C20: in a ball tick, every brick the ball overlaps is hit: one with more
\* than one hit left has one hit less, one with one hit left is gone and its
\* score is added, whatever bricks before it in the list were destroyed in the
\* tick; the ball's angle is the reflection of the last overlapped brick of the
\* list, resolved.
C20_AllBricksHit ==
    last.op = "BallTick" /\ Len(last.pre.balls) = 1 /\ ~AtBottom(1) /\ Struck(1) # {} =>
        /\ \A b \in Struck(1) :
              IF b.hits > 1
              THEN \E j \in DOMAIN bricks : bricks[j] = [b EXCEPT !.hits = b.hits - 1]
              ELSE b.cell \notin Cells(bricks)
        /\ score = last.pre.score + SumScores({b \in Struck(1) : b.hits = 1})
        /\ \A b \in Now(1) :
              b.angle = Snapped(Reflected(1, last.pre.bricks[LastStruck(1)].cell) % 360)

\* the ball overlapped two bricks that follow each other in the list: the first
\* is gone, the second is as it was
C20_Witness ==
    /\ last.op = "BallTick"
    /\ Len(last.pre.balls) = 1
    /\ ~AtBottom(1)
    /\ \E k \in DOMAIN last.pre.bricks :
          /\ k + 1 \in DOMAIN last.pre.bricks
          /\ {last.pre.bricks[k], last.pre.bricks[k + 1]} \subseteq Struck(1)
          /\ last.pre.bricks[k].cell \notin Cells(bricks)
          /\ \E j \in DOMAIN bricks : bricks[j] = last.pre.bricks[k + 1]

\* the paddle's reflection of ball i: about the tilted normal where the
\* intersection is at least as wide as high, about the vertical where it is
\* higher, none where the bounds only touch
PaddleWant(i) ==
    IF Over(i).paddle = "top" THEN Atan2(180 + 2 * Over(i).tilt - Was(i).angle)
    ELSE IF Over(i).paddle = "edge" THEN 180 - Was(i).angle
    ELSE Was(i).angle

\* C21: in a ball tick, a ball that overlaps the paddle with its colliding flag
\* clear is reflected by the paddle, stays where it is and has the flag set;
\* one that overlaps the paddle with the flag set keeps the flag and, with no
\* other contact, keeps its angle and moves; one that does not overlap the
\* paddle has the flag clear.
C21_PaddleDebounce ==
    last.op = "BallTick" =>
        \A i \in DOMAIN last.pre.balls :
            Reached(i) /\ ~AtBottom(i) =>
                \A b \in Now(i) :
                    /\ Over(i).paddle # "none" /\ ~Was(i).colliding =>
                          /\ b.colliding
                          /\ b.x = Was(i).x /\ b.y = Was(i).y
                          /\ Over(i).side = "none" /\ Over(i).vert = "none" =>
                                b.angle = Snapped(JsMod(PaddleWant(i) + 360, 360))
                    /\ Over(i).paddle # "none" /\ Was(i).colliding =>
                          /\ b.colliding
                          /\ Over(i).side = "none" /\ Over(i).vert = "none" =>
                                /\ b.angle = Was(i).angle
                                /\ <<b.x, b.y>> # <<Was(i).x, Was(i).y>>
                    /\ Over(i).paddle = "none" => ~b.colliding

\* a ball still over the paddle, its flag set by the reflection of a tick
\* before, has moved on at its angle
C21_Witness ==
    /\ last.op = "BallTick"
    /\ Len(last.pre.balls) = 1
    /\ Over(1).paddle = "top"
    /\ Over(1).side = "none"
    /\ Was(1).colliding
    /\ Was(1).angle = 290
    /\ \E b \in Now(1) : b.colliding /\ b.angle = 290 /\ b.y < Was(1).y

\* C22: in a ball tick the checks of a ball are made in the order paddle, side
\* walls, top edge, bricks, each reflecting the angle the ball had before the
\* tick, and the last check that matches gives the angle that is resolved: a
\* brick's reflection if a brick is overlapped, else that of the top edge
\* (360 - angle), else that of a side (180 - angle), else the paddle's.
C22_LastCheckWins ==
    last.op = "BallTick" =>
        \A i \in DOMAIN last.pre.balls :
            Reached(i) /\ ~AtBottom(i) /\ Collided(i) /\ OwnBricks(i) = Over(i).bricks =>
                \A b \in Now(i) :
                    \E want \in
                        (IF Struck(i) # {}
                         THEN {Reflected(i, c.cell) : c \in Struck(i)}
                         ELSE IF Over(i).vert = "top" THEN {360 - Was(i).angle}
                         ELSE IF Over(i).side # "none" THEN {180 - Was(i).angle}
                         ELSE {PaddleWant(i)}) :
                        b.angle = Snapped(JsMod(want + 360, 360))

\* a ball at 115 degrees has met the left wall and the top edge in one tick
\* and leaves at 245 degrees, the top edge's reflection
C22_Witness ==
    /\ last.op = "BallTick"
    /\ Len(last.pre.balls) = 1
    /\ Over(1).side = "left"
    /\ Over(1).vert = "top"
    /\ Was(1).angle = 115
    /\ \E b \in Now(1) : b.angle = 245

\* ball i met a side wall or the top edge
WallContact(i) == Over(i).side # "none" \/ Over(i).vert = "top"

\* C23: in a ball tick, a wall that was idle has been hit (it is in state hit,
\* with a timer to revert it) exactly if it overlapped a ball that met a side
\* wall or the top edge in the tick; a wall that overlapped no such ball is as
\* it was.
C23_WallsHit ==
    last.op = "BallTick" =>
        \A j \in DOMAIN last.pre.walls :
            LET struck == \E i \in DOMAIN last.pre.balls :
                              Reached(i) /\ WallContact(i) /\ j \in Over(i).walls
            IN  /\ struck /\ last.pre.walls[j].state = "idle" =>
                      /\ walls[j].state = "hit"
                      /\ Cardinality(WallTimersOf(timers, j)) = 1
                /\ ~struck =>
                      /\ walls[j] = last.pre.walls[j]
                      /\ WallTimersOf(timers, j) = {}

\* the ball met the left wall with its bounds over the wall, which is hit
C23_Witness ==
    /\ last.op = "BallTick"
    /\ Len(last.pre.balls) = 1
    /\ Over(1).side = "left"
    /\ Over(1).vert = "none"
    /\ Over(1).walls = {1}
    /\ last.pre.walls[1].state = "idle"
    /\ walls[1].state = "hit"

\* angle a of 0 up to 360 is in a band that the sanity checks move it out of
InBand(a) == a < 10 \/ (a > 170 /\ a < 190) \/ a > 350
\* the flip about an axis, brought into 0 up to 360
Flip(axis, a) == (IF axis = "vertical" THEN 360 - a ELSE 180 - a) % 360

\* C24: for every angle of 0 up to 360, two reflections about the same axis
\* (180 - angle for a side wall, 360 - angle for the top edge), neither giving
\* an angle in a clamp band, give angles of 0 up to 360 and return the angle
\* there was before them.
C24_FlipTwice ==
    Len(last.trail) = 2 /\ last.trail[1].axis = last.trail[2].axis
                         /\ last.trail[1].from \in 0..359
                         /\ ~InBand(Flip(last.trail[1].axis, last.trail[1].from))
                         /\ ~InBand(Flip(last.trail[2].axis, last.trail[2].from)) =>
        /\ last.trail[1].to = Flip(last.trail[1].axis, last.trail[1].from)
        /\ last.trail[2].from = last.trail[1].to
        /\ last.trail[2].to \in 0..359
        /\ last.trail[2].to = last.trail[1].from

\* a ball at 200 degrees has met the side wall twice: 340 degrees, then 200
C24_Witness ==
    /\ Len(last.trail) = 2
    /\ last.trail[1] = [axis |-> "horizontal", from |-> 200, to |-> 340]
    /\ last.trail[2] = [axis |-> "horizontal", from |-> 340, to |-> 200]
    /\ balls[1].angle = 200

\* the timers a Play session creates
PlayTimers == {"ball", "paddle", "countdown", "level", "wall"}
\* PlayState.stop has returned: the state manager has left the play state
Stopped == last.op = "Transition" /\ last.pre.current = "play"

\* C25: when PlayState.stop has returned, none of the timers of the Play session
\* (ball ticker, paddle ticker, countdown, level one-shot, wall cooldown) is
\* scheduled.
C25_StopCancelsTimers ==
    Stopped => \A i \in DOMAIN timers : timers[i].kind \notin PlayTimers

\* the game is over, the ball ticker is gone and the cooldown of a wall hit
\* shortly before the last ball was lost is scheduled
C25_Witness ==
    /\ Stopped
    /\ current = "gameover"
    /\ "play" \notin listening
    /\ \A i \in DOMAIN timers : timers[i].kind # "ball"
    /\ \E i \in DOMAIN timers : timers[i].kind = "wall" /\ ~timers[i].due /\ timers[i].ttl > 0

\* the ball tick broke the last brick of the level: handleLevelComplete ran
LevelCompleted == last.op = "BallTick" /\ last.pre.bricks # <<>> /\ bricks = <<>>

\* C26: level completion destroys every active ball, leaves this.balls empty
\* and lives as it was, with no countdown scheduled; this.balls goes from empty
\* to not empty only by the third firing of a countdown, which spawns one ball.
C26_LevelComplete ==
    /\ [](LevelCompleted =>
            /\ balls = <<>>
            /\ lives = last.pre.lives
            /\ last.pre.balls # <<>>
            /\ \A b \in Range(last.pre.balls) : destroyed[b.id] >= 1
            /\ Countdowns = {})
    /\ [][balls = <<>> /\ balls' # <<>> =>
            /\ DueKind = "countdown"
            /\ timers[FirstDue].fired = 2
            /\ last'.op = "CountdownFire"
            /\ Len(balls') = 1]_vars

\* level 0 was completed with the first ball, which was destroyed with no life
\* lost, and the countdown of level 1 has spawned the second ball
C26_Witness ==
    /\ last.op = "CountdownFire"
    /\ level = 1
    /\ lives = startLives
    /\ ballsSpawned = 2
    /\ destroyed[1] = 1
    /\ Len(balls) = 1 /\ balls[1].id = 2

\* this.paddleTicker refers to a timer that is destroyed already
Cancelled == paddleTicker /\ \A i \in DOMAIN timers : timers[i].kind # "paddle"
\* the scheduled timers other than paddle tickers
Others(ts) == SelectSeq(ts, LAMBDA t : t.kind # "paddle")

C28_OnlyPlusOne ==
    /\ level = 0
    /\ [](level \in 0..(Len(levels) - 1))
    /\ [][level' # level => level' = level + 1 /\ last'.op = "LevelAdvance"]_vars

\* C28: this.level is 0 at first and stays in 0 .. number of levels - 1; it
\* changes by +1 when the one-shot of a level completion fires, with no brick
\* and no ball left, and to 0 when Play is entered again, and changes in no
\* other way.
C28_LevelIndex ==
    /\ level = 0
    /\ [](level \in 0..(Len(levels) - 1))
    /\ [][/\ level' # level =>
                \/ /\ level' = level + 1
                   /\ last'.op = "LevelAdvance"
                   /\ bricks = <<>> /\ balls = <<>>
                \/ /\ level' = 0
                   /\ last'.op = "Transition" /\ current' = "play"
          /\ last'.op = "LevelAdvance" /\ last' # last => level' = level + 1
          /\ last'.op = "Transition" /\ current' = "play" => level' = 0]_vars

\* Play has been entered again after a game that ended at level 1
C28_Witness ==
    /\ last.op = "Transition"
    /\ current = "play"
    /\ last.pre.level = 1
    /\ level = 0
    /\ plays = 2

\* the paddle exists and is a child of the playground: Play has been prepared
Attached == plays > 0
\* half the paddle's width, and the place of its centre at value 0 and at value
\* 1, in 1/100 of a pixel
HalfPaddle == (paddleWidth * Centi) \div 2
CentreAt0 == leftEdge * Centi + HalfPaddle
CentreAt1 == rightEdge * Centi - HalfPaddle

\* C29: with the paddle attached, its centre is at the linear interpolation for
\* value between left edge + half its width (value 0) and right edge - half its
\* width (value 1), so that its bounds lie between the two edges; a step that
\* sets value leaves it there.
C29_PaddlePlaced ==
    /\ [](Attached =>
            /\ 1000 * paddleX = (1000 - value) * CentreAt0 + value * CentreAt1
            /\ paddleX - HalfPaddle >= leftEdge * Centi
            /\ paddleX + HalfPaddle <= rightEdge * Centi)
    /\ [][value' # value /\ last'.op \in {"PaddleTick", "MouseMove"} =>
            1000 * paddleX' = (1000 - value') * CentreAt0 + value' * CentreAt1]_vars

\* the mouse has taken the paddle from the middle to value 1: its right bound
\* is at the right playable edge
C29_Witness ==
    /\ last.op = "MouseMove"
    /\ "play" \in listening
    /\ value = 1000
    /\ paddleX = CentreAt1
    /\ paddleX + HalfPaddle = rightEdge * Centi

\* C30: this.balls holds one ball at most, and a countdown is scheduled only
\* while it holds none.
C30_OneBall ==
    /\ Len(balls) <= 1
    /\ balls # <<>> => Countdowns = {}

\* the one ball in play is the third or a later one, after a lost ball and a
\* completed level
C30_Witness ==
    /\ Len(balls) = 1
    /\ ballsSpawned >= 3
    /\ balls[1].id = ballsSpawned
    /\ level >= 1
    /\ lives < startLives

\* Play has requested the game over or the win, and is still the started state
EndRequested ==
    current = "play" /\ \E i \in DOMAIN wanted : wanted[i].state \in {"gameover", "win"}

\* C31: one countdown at most is scheduled; one is scheduled only while
\* this.balls is empty; none is scheduled when Play has requested the
\* transition to game over or to win.
C31_OneCountdown ==
    /\ Cardinality(Countdowns) <= 1
    /\ Countdowns # {} => balls = <<>>
    /\ EndRequested => Countdowns = {}

\* the last ball was lost with the last life: game over is requested and no
\* countdown is scheduled
C31_Witness ==
    /\ last.op = "BallTick"
    /\ EndRequested
    /\ wanted[1].state = "gameover"
    /\ lives = 0
    /\ balls = <<>>
    /\ Countdowns = {}

\* C32: with this.gameover set (and until the next session clears it) no step
\* changes the score or this.bricks, among them the step in which stop destroys
\* the playground and its bricks; the level stays, no level one-shot is
\* scheduled and no win is requested.
C32_TerminalQuiet ==
    [][gameover /\ gameover' =>
          /\ score' = score
          /\ bricks' = bricks
          /\ level' = level
          /\ NumTimers(timers', "level") = 0
          /\ \A i \in DOMAIN wanted' : wanted'[i].state # "win"]_vars

\* Play has stopped after the last ball was lost: the bricks that stop destroyed
\* are in this.bricks as before, and the score shown is the score of the game
C32_Witness ==
    /\ Stopped
    /\ current = "gameover"
    /\ gameover
    /\ bricks # <<>>
    /\ bricks = last.pre.bricks
    /\ score = last.pre.score
    /\ score > 0
    /\ payload = score

\* the sum of the cells of a level grid, row by row
RECURSIVE RowSum(_, _, _)
RowSum(grid, j, i) ==
    IF i >= maxCols THEN 0 ELSE grid[i + j * maxCols + 1] + RowSum(grid, j, i + 1)
RECURSIVE GridSum(_, _)
GridSum(grid, j) == IF j >= maxRows THEN 0 ELSE RowSum(grid, j, 0) + GridSum(grid, j + 1)
RECURSIVE LevelsSum(_)
LevelsSum(n) == IF n = 0 THEN 0 ELSE GridSum(levels[n], 0) + LevelsSum(n - 1)

\* C33: a request for 'win' carries, and the win state shows, 100 times the
\* sum of all cells of all level grids, which is 9100 for the three levels.
C33_WinScore ==
    /\ 100 * LevelsSum(Len(levels)) = 9100
    /\ \A i \in DOMAIN wanted :
          wanted[i].state = "win" => wanted[i].score = 100 * LevelsSum(Len(levels))
    /\ current = "win" => payload = 100 * LevelsSum(Len(levels))

\* the last brick of the last level has been destroyed in a game in which a
\* ball was lost: win is requested with 9100
C33_Witness ==
    /\ last.op = "BallTick"
    /\ current = "play"
    /\ level = Len(levels) - 1
    /\ bricks = <<>>
    /\ lives < startLives
    /\ wanted = <<[state |-> "win", score |-> 9100]>>

\* the angles that are pi/18 or more away from 0, pi and 2 pi
Admissible == (10..170) \cup (190..350)

\* C34: the angle of every ball of this.balls is in [pi/18, pi - pi/18] or in
\* [pi + pi/18, 2 pi - pi/18]; every spawn angle is.
C34_AngleInRange ==
    /\ SpawnAnglesAll \subseteq Admissible
    /\ \A i \in DOMAIN balls : balls[i].angle \in Admissible

\* a ball that came down at 15 degrees has been turned by the paddle's top to
\* the end of the band at 350 degrees
C34_Witness ==
    /\ last.op = "BallTick"
    /\ Len(last.pre.balls) = 1
    /\ Was(1).angle = 15
    /\ Over(1).paddle = "top"
    /\ Len(balls) = 1
    /\ balls[1].angle = 350

\* the tick was that of one ball that came down, was not colliding with the
\* paddle and met its top, and nothing else
TopFaceHit ==
    /\ last.op = "BallTick"
    /\ Len(last.pre.balls) = 1
    /\ Was(1).angle \in 1..179
    /\ ~Was(1).colliding
    /\ Over(1).paddle = "top"
    /\ Over(1).side = "none" /\ Over(1).vert = "none" /\ Over(1).bricks = {}

\* C35: a ball that comes down (angle in (0, pi)) and meets the paddle's top,
\* with no later check of the tick matching, is reflected about a normal of
\* 1.3 pi to 1.7 pi and leaves upward (angle in (pi, 2 pi)), wherever it meets
\* the paddle and whatever its angle.
C35_PaddleSendsUp ==
    TopFaceHit =>
        /\ Over(1).tilt \in TiltsAll
        /\ \A b \in Now(1) : b.angle \in 181..359

\* a ball that came down at 10 degrees met the paddle's top where the normal
\* is at 290 degrees, and goes on down at 30 degrees
C35_Witness ==
    /\ TopFaceHit
    /\ Was(1).angle = 10
    /\ Over(1).tilt = 290
    /\ Len(balls) = 1
    /\ balls[1].angle = 30
    /\ balls[1].colliding

\* the paddle tickers that are scheduled
PaddleTickers == {i \in DOMAIN timers : timers[i].kind = "paddle"}

\* C36: one paddle ticker at most is scheduled; the arrow key whose direction
\* a scheduled ticker moves the paddle in is pressed; with no arrow key pressed
\* no ticker is scheduled.
C36_TickerKeyHeld ==
    /\ Cardinality(PaddleTickers) <= 1
    /\ \A i \in PaddleTickers : timers[i].key \in pressed
    /\ pressed \cap Arrows = {} => PaddleTickers = {}

\* with the left arrow key alone pressed, the ticker of the right arrow key,
\* which was pressed after it and released, has moved the paddle to the right
C36_Witness ==
    /\ last.op = "PaddleTick"
    /\ pressed = {"ArrowLeft"}
    /\ PaddleTickers # {}
    /\ \A i \in PaddleTickers : timers[i].key = "ArrowRight"
    /\ value > last.pre.value

\* C37: while this.balls holds a ball this.bricks holds a brick; in Play,
\* this.bricks is empty only with no ball and with the one-shot of the level
\* completion scheduled or the win requested.
C37_BallsNeedBricks ==
    /\ balls # <<>> => bricks # <<>>
    /\ current = "play" /\ bricks = <<>> =>
          /\ balls = <<>>
          /\ \/ NumTimers(timers, "level") = 1
             \/ \E i \in DOMAIN wanted : wanted[i].state = "win"

\* the ball has broken the last brick of the first level: no brick and no ball
\* are left, and the one-shot that spawns the next level is due
C37_Witness ==
    /\ LevelCompleted
    /\ current = "play"
    /\ level = 0
    /\ last.pre.balls # <<>>
    /\ bricks = <<>>
    /\ balls = <<>>
    /\ NumTimers(timers, "level") = 1
    /\ wanted = <<>>

====
